---- MODULE Spec2Model ----
(***************************************************************************)
(* Model of the datacore log engine (src/datacore): the flat-tree Merkle  *)
(* stream, the three storage codecs over a random-access backend, and     *)
(* Core::new / Core::append / Core::get, for a writer core and a replica  *)
(* core that share one Ed25519 key pair.                                   *)
(*                                                                         *)
(* Hashes and signatures are symbolic terms: a hash is the tuple of its   *)
(* domain tag and inputs (a collision-free hash), a signature is the      *)
(* tuple of the signing key and the signed message (an unforgeable        *)
(* deterministic signature, as Ed25519 is).                                *)
(***************************************************************************)
EXTENDS Integers, Sequences, FiniteSets, TLC

\* ------------------------------------------------------------------ bounds
\* Largest length a core is driven to.
MaxBlocks == 2
\* Number of distinct block contents appended.
MaxContents == 2
\* Most backend write errors and crashes in one behaviour.
MaxFaults == 2
\* Most backend write errors in one behaviour of two cores.
MaxReplicaFaults == 1
\* How far below u32::MAX, and how far above 0, the counters of a core at
\* its capacity start, and how many calls are made on it.
MaxNearCapacity == 2
\* Most transport faults (lost, duplicated or overtaking messages) and
\* reopen commands in one replication session.
MaxNetFaults == 2
\* Most leaves fed to a Merkle stream on its own.
MaxLeaves == 4
\* Number of distinct leaf contents fed to a Merkle stream on its own.
MaxLeafValues == 4
\* Number of discovery keys a runtime is given replicas for.
MaxReplicas == 3
\* Number of channel keys a protocol side opens channels for.
MaxChannels == 3
\* Most calls made on a protocol side.
MaxCalls == 3
\* Most frames the remote end sends to a protocol side.
MaxFrames == 2
\* The keepalive window, in ticks of the clock.
Keepalive == 2
\* The clock stops here.
MaxTime == 5

\* Polls of a CoreIterator.
MaxPolls == 3

\* Bytes of the read buffer when it is made (READ_BUF_INITIAL_SIZE).
ReadBufSize == 4

\* --------------------------------------------------------------- constants
\* n <= u32::MAX, written so that no number above 2^31 is ever evaluated
\* (MAX_CORE_LENGTH = MAX_BLOCK_SIZE = u32::MAX).
LeU32Max(n) == n \div 65536 < 65536

\* n < u32::MAX.
LtU32Max(n) == LeU32Max(n) /\ ~(n \div 65536 = 65535 /\ n % 65536 = 65535)

Cores == {"writer", "replica"}

\* Block contents: MaxContents byte vectors of lengths 1, 2, 0, 1, 2, ...:
\* <<1>>, <<1, 2>>, <<>>, <<2>>, <<2, 3>>, ...
ContentOf(k) == [i \in 1..(k % 3) |-> i + (k \div 3)]

Contents == { ContentOf(k) : k \in 1..MaxContents }

\* ------------------------------------------------------------- flat tree
RECURSIVE Pow2(_)
Pow2(n) == IF n = 0 THEN 1 ELSE 2 * Pow2(n - 1)

is_even(i) == i % 2 = 0

\* Count of trailing 1 bits of i.
RECURSIVE depth(_)
depth(i) == IF i % 2 = 0 THEN 0 ELSE 1 + depth(i \div 2)

index(d, o) == o * Pow2(d + 1) + (Pow2(d) - 1)

offset(i) == IF is_even(i) THEN i \div 2 ELSE i \div Pow2(depth(i) + 1)

parent(i) == index(depth(i) + 1, offset(i) \div 2)

right_span(i) ==
    IF depth(i) = 0 THEN i ELSE (offset(i) + 1) * (2 * Pow2(depth(i))) - 2

left_span(i) ==
    IF depth(i) = 0 THEN i ELSE offset(i) * (2 * Pow2(depth(i)))

\* ------------------------------------------------------------------ hash
from_leaf(data) == <<"leaf", Len(data), data>>

HashLeftOnly(left, right, length) == <<"parent", length, left>>

from_hashes(left, right, length) == <<"parent", length, left, right>>

from_roots(hashes, lengths) ==
    <<"roots", [k \in 1..(IF Len(hashes) < Len(lengths) THEN Len(hashes)
                                                           ELSE Len(lengths))
                  |-> <<lengths[k], hashes[k]>>]>>

\* ------------------------------------------------------------------ keys
PublicKey == "K"

sign(public, msg) == <<"sig", public, msg>>

verify(public, msg, signature) == signature = <<"sig", public, msg>>

\* Signature::from_bytes(&[0u8; SIGNATURE_LENGTH]): a well-formed signature
\* that verifies for no message.
ZeroSig == <<"zero">>

\* ---------------------------------------------------------- Merkle stream
Node(i, h, l) == [index |-> i, hash |-> h, length |-> l]

MerkleNewCountsRoots(roots) == [roots |-> roots, blocks |-> Len(roots)]

\* MerkleTreeStream::new: the block count is recomputed from the last root.
MerkleNew(roots) ==
    [roots |-> roots,
     blocks |-> IF roots # <<>>
                THEN 1 + right_span(roots[Len(roots)].index) \div 2
                ELSE 0]

MerkleFoldNone(roots) == roots

MerkleFoldOnce(roots) ==
    IF Len(roots) > 1
    THEN LET left == roots[Len(roots) - 1]
             right == roots[Len(roots)]
         IN IF parent(left.index) # parent(right.index)
            THEN roots
            ELSE Append(SubSeq(roots, 1, Len(roots) - 2),
                        Node(parent(left.index),
                             from_hashes(left.hash, right.hash,
                                         left.length + right.length),
                             left.length + right.length))
    ELSE roots

\* The while loop of MerkleTreeStream::next: fold the last two roots while
\* they have the same flat-tree parent.
RECURSIVE MerkleFold(_)
MerkleFold(roots) ==
    IF Len(roots) > 1
    THEN LET left == roots[Len(roots) - 1]
             right == roots[Len(roots)]
         IN IF parent(left.index) # parent(right.index)
            THEN roots
            ELSE MerkleFold(
                   Append(SubSeq(roots, 1, Len(roots) - 2),
                          Node(parent(left.index),
                               from_hashes(left.hash, right.hash,
                                           left.length + right.length),
                               left.length + right.length)))
    ELSE roots

MerkleNext(m, hash, length) ==
    [roots |-> MerkleFold(Append(m.roots, Node(2 * m.blocks, hash, length))),
     blocks |-> m.blocks + 1]

hash_merkle(m) ==
    from_roots([k \in 1..Len(m.roots) |-> m.roots[k].hash],
               [k \in 1..Len(m.roots) |-> m.roots[k].length])

\* ------------------------------------------------------ storage backend
\* RandomAccess::write: bytes past the old end are created, a gap between
\* the old end and the offset reads as zero.
\* A store is a sequence of cells; `zero` is the cell a gap reads as.
RaWrite(store, off, bytes, zero) ==
    [k \in 1..(IF off + Len(bytes) > Len(store) THEN off + Len(bytes)
                                                 ELSE Len(store)) |->
        IF k > off /\ k <= off + Len(bytes) THEN bytes[k - off]
        ELSE IF k <= Len(store) THEN store[k]
        ELSE zero]

\* RandomAccess::read fails when the range passes the end of the store.
RaReadOk(store, off, length) == off + length <= Len(store)

RaRead(store, off, length) == SubSeq(store, off + 1, off + length)

\* ---------------------------------------------------------------- block
BlockSignature(data, tree) == [data |-> data, tree |-> tree]

Block(off, length, signature) ==
    [offset |-> off, length |-> length, signature |-> signature]

\* Block::to_bytes / Block::from_bytes. A record is kept as one cell of the
\* block store holding its four fields in wire order; every access of the
\* block store is at a multiple of BLOCK_LENGTH and BLOCK_LENGTH long, so
\* the record index is the cell offset.
BlockToBytes(b) == <<b.offset, b.length, b.signature.data, b.signature.tree>>

BlockFromBytes(cell) ==
    Block(cell[1], cell[2], BlockSignature(cell[3], cell[4]))

ZeroBlockCell == <<0, 0, ZeroSig, ZeroSig>>

\* StoreBlocks::write
StoreBlocksWrite(store, idx, block) ==
    RaWrite(store, idx, <<BlockToBytes(block)>>, ZeroBlockCell)

\* StoreBlocks::read
StoreBlocksReadOk(store, idx) == RaReadOk(store, idx, 1)

StoreBlocksRead(store, idx) == BlockFromBytes(RaRead(store, idx, 1)[1])

\* StoreData::write / StoreData::read: cells are bytes.
StoreDataWrite(store, block, data) == RaWrite(store, block.offset, data, 0)

StoreDataReadOk(store, block) == RaReadOk(store, block.offset, block.length)

StoreDataReadFromStart(store, block) == RaRead(store, 0, block.length)

StoreDataRead(store, block) == RaRead(store, block.offset, block.length)

\* Node::to_bytes / Node::from_bytes: one cell per 48-byte node.
NodeToBytes(n) == <<n.index, n.length, n.hash>>

NodeFromBytes(cell) == Node(cell[1], cell[3], cell[2])

ZeroNodeCell == <<0, 0, <<"zerohash">>>>

\* StoreState::write: the count header and the roots, at offset 0; cells
\* after the written range keep what they held.
StoreStateWrite(store, m) ==
    RaWrite(store, 0,
            <<Len(m.roots)>> \o [k \in 1..Len(m.roots) |-> NodeToBytes(m.roots[k])],
            ZeroNodeCell)

\* StoreState::read: a failed header read is "no roots"; a failed read of
\* the roots is an error.
StoreStateReadOk(store) ==
    RaReadOk(store, 0, 1) => RaReadOk(store, 1, RaRead(store, 0, 1)[1])

StoreStateRead(store) ==
    IF ~RaReadOk(store, 0, 1)
    THEN MerkleNew(<<>>)
    ELSE LET cells == RaRead(store, 1, RaRead(store, 0, 1)[1])
         IN MerkleNew([k \in 1..Len(cells) |-> NodeFromBytes(cells[k])])

\* ------------------------------------------------------- wide counters
\* A u32, u64 or usize value v as the pair <<v \div 2^16, v % 2^16>>, so
\* that values at and above u32::MAX can be written down.
Half == Pow2(16)

Wide(n) == <<n \div Half, n % Half>>

WAdd(a, b) == <<a[1] + b[1] + (a[2] + b[2]) \div Half, (a[2] + b[2]) % Half>>

WLt(a, b) == a[1] < b[1] \/ (a[1] = b[1] /\ a[2] < b[2])

WLe(a, b) == a = b \/ WLt(a, b)

\* `as u32` and u32 wrapping: the low 32 bits.
WrapU32(a) == <<a[1] % Half, a[2]>>

MAX_CORE_LENGTH == <<Half - 1, Half - 1>>

MAX_BLOCK_SIZE == <<Half - 1, Half - 1>>

\* The counters of a Core: length (u32) and byte_length (u64).
Counters(length, byte_length) ==
    [length |-> length, byte_length |-> byte_length]

\* Core::append on the counters, for a call that gets past the signature
\* (lines 133-156) and whose three store writes succeed (lines 161-165):
\* the size check of line 130, then byte_length += data_length and
\* length += 1 (lines 166-167). There is no check of length against
\* MAX_CORE_LENGTH. With overflow checks (a debug build) the addition that
\* passes u32::MAX panics, after byte_length was advanced; without them
\* (a release build) it wraps.
AppendCounters(co, data_length, overflow_checks) ==
    IF ~WLe(data_length, MAX_BLOCK_SIZE)
    THEN [res |-> "ErrOversize", core |-> co]
    ELSE LET byte_length == WAdd(co.byte_length, data_length)
             length == WAdd(co.length, Wide(1))
         IN IF WLe(length, MAX_CORE_LENGTH)
            THEN [res |-> "Ok", core |-> Counters(length, byte_length)]
            ELSE IF overflow_checks
            THEN [res |-> "Panic", core |-> Counters(co.length, byte_length)]
            ELSE [res |-> "Ok",
                  core |-> Counters(WrapU32(length), byte_length)]

\* Core::get on the counters, for stores that hold every block below
\* length: the index check of line 188, then the length check.
GetCounters(co, idx) ==
    IF ~WLt(idx, MAX_CORE_LENGTH) THEN "Err"
    ELSE IF ~WLt(idx, co.length) THEN "None"
    ELSE "Some"

\* Core::head on the counters: the index it reads and the result.
HeadCounters(co) ==
    IF co.length = Wide(0) THEN [idx |-> Wide(0), res |-> "None"]
    ELSE LET idx == IF co.length[2] > 0
                    THEN <<co.length[1], co.length[2] - 1>>
                    ELSE <<co.length[1] - 1, Half - 1>>
         IN [idx |-> idx, res |-> GetCounters(co, idx)]

\* Lengths and indices at both ends of the u32 range.
NearCapacity ==
    { Wide(k) : k \in 0..MaxNearCapacity } \cup
    { <<Half - 1, Half - 1 - k>> : k \in 0..MaxNearCapacity }

\* Content lengths (usize): empty, one byte, MAX_BLOCK_SIZE and one more.
DataLengths ==
    {Wide(0), Wide(1), MAX_BLOCK_SIZE, WAdd(MAX_BLOCK_SIZE, Wide(1))}

\* The capacity scenario: a core of one-byte blocks, the call made last
\* on it, and the counters before that call.
CapOf(length, overflow_checks) ==
    [core |-> Counters(length, length), prev |-> Counters(length, length),
     overflow_checks |-> overflow_checks, alive |-> TRUE, calls |-> 0,
     ret |-> [op |-> "new", arg |-> Wide(0), res |-> "Ok"]]

\* ------------------------------------------------- Merkle stream alone
Leaves == { ContentOf(k) : k \in 1..MaxLeafValues }

\* merkle.next(Hash::from_leaf(data), data.len() as u64)
MtsFeed(m, leaf) == MerkleNext(m, from_leaf(leaf), Len(leaf))

\* Two streams built from the same or from different leaves.
MtsOf(a, b, la, lb) == [a |-> a, b |-> b, la |-> la, lb |-> lb]

\* ----------------------------------------------------------------- state
VARIABLES
    core,        \* per core: the in-memory Core struct, or the closed marker
    secret_key,  \* per core: whether it was given the SecretKey
    data,        \* per core: the backend of the content store
    blocks,      \* per core: the backend of the block-record store
    state,       \* per core: the backend of the state store
    ret,         \* the last call and what it returned; for Core::new
                 \* also how the previous handle on the stores ended
    model,       \* per core: contents appended through the current handle
    base,        \* per core: len() when the current handle was opened
    durable,     \* per core: contents of the appends whose state write completed
    faults,      \* backend write errors and crashes so far
    remote_index, \* per core: CoreReplica::remote_index, <<>> for None
    net,         \* per core: the messages in flight to its runtime
    run,         \* per core: where its Replication::run is
    lost,        \* transport faults and reopen commands so far
    cap,         \* a core whose counters are near the u32 limit
    mts,         \* two Merkle streams and the leaves each was fed
    rt,          \* a Replication runtime with several replicas attached:
                 \* the replicas, the on_close calls of its last event,
                 \* where run() is, and the last event handled
    cm,          \* a ChannelMap on its own, the local ids that were free
                 \* before the last call, and that call
    pr,          \* one side of the protocol in its main stage: Protocol
                 \* with its IO, the frames on the wire in both
                 \* directions, the events handed up and the calls made
    rd,          \* a reader with its keepalive timer, the clock, and
                 \* when bytes were last read and frames last written
    peers,       \* the two sides of one connection after establish():
                 \* each a Protocol as in pr, the wire of one feeding
                 \* the reader of the other
    it,          \* a CoreIterator over the writer's core: the index its
                 \* read task holds and the items it has yielded
    fr           \* a ReadState at the level of bytes: buf, start, end,
                 \* step, the cipher, the bytes the transport still
                 \* holds and the frames returned

vars == <<core, secret_key, data, blocks, state, ret, model, base, durable,
          faults, remote_index, net, run, lost, cap, mts, rt, cm, pr, rd,
          peers, it, fr>>

\* The state of the protocol layer and of the runtime on top of it.
proto == <<rt, cm, pr, rd, peers, it, fr>>

\* The state of the replication runtimes.
repl == <<remote_index, net, run, lost>>

stores == <<data, blocks, state>>

\* The value of core[c] while no handle is open.
Closed == [open |-> FALSE, merkle |-> MerkleNew(<<>>), length |-> 0, byte_length |-> 0]

Ret(op, c, res) == [op |-> op, c |-> c, res |-> res, after |-> "-"]

\* Core::new: the result ("Ok" or "Err") and the Core it builds.
CoreNewOk(c) ==
    /\ StoreStateReadOk(state[c])
    /\ LET length == StoreStateRead(state[c]).blocks
       IN length # 0 => StoreBlocksReadOk(blocks[c], length - 1)

CoreNew(c) ==
    LET merkle == StoreStateRead(state[c])
        length == merkle.blocks
        byte_length ==
            IF length = 0 THEN 0
            ELSE LET block == StoreBlocksRead(blocks[c], length - 1)
                 IN block.offset + block.length
    IN [open |-> TRUE, merkle |-> merkle, length |-> length,
        byte_length |-> byte_length]

\* Core::get: <<"Err">>, <<"None">> or <<"Some", content, signature>>.
CoreGet(c, idx) ==
    IF ~LtU32Max(idx) THEN <<"Err">>
    ELSE IF idx >= core[c].length THEN <<"None">>
    ELSE IF ~StoreBlocksReadOk(blocks[c], idx) THEN <<"Err">>
    ELSE LET block == StoreBlocksRead(blocks[c], idx)
         IN IF ~StoreDataReadOk(data[c], block) THEN <<"Err">>
            ELSE <<"Some", StoreDataRead(data[c], block), block.signature>>

\* Core::head
CoreHead(c) ==
    IF core[c].length = 0 THEN <<"None">> ELSE CoreGet(c, core[c].length - 1)

AppendSuppliedInPlace(c, content, signature) ==
    LET data_hash == from_leaf(content)
        merkle == MerkleNext(core[c].merkle, data_hash, Len(content))
    IN IF ~verify(PublicKey, data_hash, signature.data)
       THEN [res |-> "ErrVerify", merkle |-> core[c].merkle, signature |-> signature]
       ELSE IF ~verify(PublicKey, hash_merkle(merkle), signature.tree)
       THEN [res |-> "ErrVerify", merkle |-> merkle, signature |-> signature]
       ELSE [res |-> "Ok", merkle |-> merkle, signature |-> signature]

\* Core::append, the Some(signature) arm (lines 134-143): both signatures
\* are verified, the tree signature against a clone of the Merkle stream
\* advanced by the new leaf; the clone replaces the stream on success.
AppendSupplied(c, content, signature) ==
    LET data_hash == from_leaf(content)
        merkle == MerkleNext(core[c].merkle, data_hash, Len(content))
    IN IF ~verify(PublicKey, data_hash, signature.data)
       THEN [res |-> "ErrVerify", merkle |-> core[c].merkle, signature |-> signature]
       ELSE IF ~verify(PublicKey, hash_merkle(merkle), signature.tree)
       THEN [res |-> "ErrVerify", merkle |-> core[c].merkle, signature |-> signature]
       ELSE [res |-> "Ok", merkle |-> merkle, signature |-> signature]

AppendSignedLateCheck(c, content) ==
    LET data_hash == from_leaf(content)
        merkle == MerkleNext(core[c].merkle, data_hash, Len(content))
    IN IF ~secret_key[c]
       THEN [res |-> "ErrNoSecret", merkle |-> merkle,
             signature |-> BlockSignature(ZeroSig, ZeroSig)]
       ELSE [res |-> "Ok", merkle |-> merkle,
             signature |-> BlockSignature(sign(PublicKey, data_hash),
                                          sign(PublicKey, hash_merkle(merkle)))]

\* Core::append, the None arm (lines 144-155): without the secret key the
\* call fails; with it the stream is advanced in place and both hashes
\* are signed.
AppendSigned(c, content) ==
    LET data_hash == from_leaf(content)
        merkle == MerkleNext(core[c].merkle, data_hash, Len(content))
    IN IF ~secret_key[c]
       THEN [res |-> "ErrNoSecret", merkle |-> core[c].merkle,
             signature |-> BlockSignature(ZeroSig, ZeroSig)]
       ELSE [res |-> "Ok", merkle |-> merkle,
             signature |-> BlockSignature(sign(PublicKey, data_hash),
                                          sign(PublicKey, hash_merkle(merkle)))]

NewBlockAtIndex(c, data_length, signature) ==
    Block(core[c].length, data_length, signature)

\* Block::new(self.byte_length, data_length as u32, signature), lines 158-159.
NewBlock(c, data_length, signature) ==
    Block(core[c].byte_length, data_length, signature)

\* Core::append up to the construction of the block (lines 128-159): the
\* result so far, the Merkle stream the core is left with, and the block.
\* `signature` is <<>> for None and <<s>> for Some(s).
AppendPrepare(c, content, signature) ==
    IF ~LeU32Max(Len(content))
    THEN [res |-> "ErrOversize", merkle |-> core[c].merkle,
          block |-> NewBlock(c, 0, BlockSignature(ZeroSig, ZeroSig))]
    ELSE LET r == IF signature # <<>>
                  THEN AppendSupplied(c, content, signature[1])
                  ELSE AppendSigned(c, content)
         IN [res |-> r.res, merkle |-> r.merkle,
             block |-> NewBlock(c, Len(content), r.signature)]

\* self.byte_length += data_length; self.length += 1 (lines 166-167).
Advance(co, data_length) ==
    [co EXCEPT !.byte_length = @ + data_length, !.length = @ + 1]

AppendWritesStateEarly(c, content, prep, wrote) ==
    [data |-> IF wrote.data
              THEN StoreDataWrite(data[c], prep.block, content) ELSE data[c],
     blocks |-> IF wrote.blocks
                THEN StoreBlocksWrite(blocks[c], core[c].length, prep.block)
                ELSE blocks[c],
     state |-> IF wrote.data
               THEN StoreStateWrite(state[c], prep.merkle) ELSE state[c]]

\* The storage writes of Core::append (lines 161-165). `wrote` says which of
\* the backend writes took effect: the content write and the block-record
\* write are both driven to completion by zip, the state write is started
\* only when both succeeded.
AppendWrites(c, content, prep, wrote) ==
    [data |-> IF wrote.data
              THEN StoreDataWrite(data[c], prep.block, content) ELSE data[c],
     blocks |-> IF wrote.blocks
                THEN StoreBlocksWrite(blocks[c], core[c].length, prep.block)
                ELSE blocks[c],
     state |-> IF wrote.data /\ wrote.blocks /\ wrote.state
               THEN StoreStateWrite(state[c], prep.merkle) ELSE state[c]]

Wrote ==
    { w \in [data : BOOLEAN, blocks : BOOLEAN, state : BOOLEAN] :
        w.state => (w.data /\ w.blocks) }

AllWritten(wrote) == wrote.data /\ wrote.blocks /\ wrote.state

\* The block signatures the writer serves: those get returns for its
\* visible blocks.
Served ==
    { CoreGet("writer", i)[3] :
        i \in { j \in 0..(MaxBlocks - 1) : CoreGet("writer", j)[1] = "Some" } }

\* The signature arguments of append. The writer signs itself (None); the
\* replica is also handed signatures: any data signature and any tree
\* signature the writer serves, or the all-zero signature, in either place.
Signatures(c) ==
    IF c = "writer" \/ ~core["writer"].open THEN {<<>>}
    ELSE {<<>>} \cup
         { <<BlockSignature(d, t)>> :
             d \in {ZeroSig} \cup { s.data : s \in Served },
             t \in {ZeroSig} \cup { s.tree : s \in Served } }

\* ----------------------------------------------------------- channel map
ChannelKeys == 1..MaxChannels

\* discovery_key(key): a keyed hash of the channel key.
discovery_key(key) == <<"hypercore", key>>

DiscoveryKeys == { discovery_key(key) : key \in ChannelKeys }

\* Element i of a Rust Vec v (indices start at 0).
At(v, i) == v[i + 1]

\* v with element i set to x.
Put(v, i, x) == [v EXCEPT ![i + 1] = x]

\* ChannelHandle; an Option is <<>> for None and <<x>> for Some(x).
ChannelHandle(dk, local_state, remote_state) ==
    [discovery_key |-> dk, local_state |-> local_state,
     remote_state |-> remote_state]

LocalState(local_id, key) == [local_id |-> local_id, key |-> key]

RemoteState(remote_id, remote_capability) ==
    [remote_id |-> remote_id, remote_capability |-> remote_capability]

is_connected(handle) ==
    handle.local_state # <<>> /\ handle.remote_state # <<>>

\* ChannelMap::new: local_id starts as vec![None], remote_id as vec![].
ChannelMapNew ==
    [channels |-> [dk \in DiscoveryKeys |-> <<>>],
     local_id |-> <<<<>>>>, remote_id |-> <<>>]

\* The positions p, counted from 0 after the first element was skipped,
\* at which local_id holds None.
EmptyPositions(local_id) ==
    { p \in 0..(Len(local_id) - 2) : At(local_id, p + 1) = <<>> }

Least(S) == CHOOSE x \in S : \A y \in S : x <= y

AllocLocalFromOne(map) ==
    IF EmptyPositions(map.local_id) # {}
    THEN [map |-> map, id |-> Least(EmptyPositions(map.local_id)) + 1]
    ELSE [map |-> [map EXCEPT !.local_id = Append(@, <<>>)],
          id |-> Len(map.local_id)]

\* ChannelMap::alloc_local: iter().skip(1).position(is_none) is returned
\* as it is; otherwise None is pushed and its index returned.
alloc_local(map) ==
    IF EmptyPositions(map.local_id) # {}
    THEN [map |-> map, id |-> Least(EmptyPositions(map.local_id))]
    ELSE [map |-> [map EXCEPT !.local_id = Append(@, <<>>)],
          id |-> Len(map.local_id)]

\* ChannelMap::alloc_remote
alloc_remote(map, id) ==
    IF Len(map.remote_id) > id
    THEN [map EXCEPT !.remote_id = Put(@, id, <<>>)]
    ELSE [map EXCEPT !.remote_id =
             @ \o [i \in 1..(id + 1 - Len(@)) |-> <<>>]]

\* ChannelMap::attach_local: the map afterwards and the local id of the
\* handle it returns.
attach_local(map, key) ==
    LET dk == discovery_key(key)
        a == alloc_local(map)
        old == a.map.channels[dk]
        handle == IF old # <<>>
                  THEN [old[1] EXCEPT
                          !.local_state = <<LocalState(a.id, key)>>]
                  ELSE ChannelHandle(dk, <<LocalState(a.id, key)>>, <<>>)
    IN [map |-> [a.map EXCEPT !.channels[dk] = <<handle>>,
                              !.local_id = Put(@, a.id, dk)],
        id |-> a.id]

\* ChannelMap::attach_remote
attach_remote(map, dk, remote_id, remote_capability) ==
    LET a == alloc_remote(map, remote_id)
        old == a.channels[dk]
        remote_state == <<RemoteState(remote_id, remote_capability)>>
        handle == IF old # <<>>
                  THEN [old[1] EXCEPT !.remote_state = remote_state]
                  ELSE ChannelHandle(dk, <<>>, remote_state)
    IN [a EXCEPT !.channels[dk] = <<handle>>,
                 !.remote_id = Put(@, remote_id, dk)]

\* ChannelMap::get_remote / get_local: <<>> or <<handle>>.
get_remote(map, remote_id) ==
    IF remote_id < Len(map.remote_id) /\ At(map.remote_id, remote_id) # <<>>
    THEN map.channels[At(map.remote_id, remote_id)] ELSE <<>>

get_local(map, local_id) ==
    IF local_id < Len(map.local_id) /\ At(map.local_id, local_id) # <<>>
    THEN map.channels[At(map.local_id, local_id)] ELSE <<>>

\* ChannelMap::remove
remove(map, dk) ==
    LET channel == map.channels[dk]
        local == IF channel # <<>> /\ channel[1].local_state # <<>>
                 THEN Put(map.local_id, channel[1].local_state[1].local_id,
                          <<>>)
                 ELSE map.local_id
        remote == IF channel # <<>> /\ channel[1].remote_state # <<>>
                  THEN Put(map.remote_id,
                           channel[1].remote_state[1].remote_id, <<>>)
                  ELSE map.remote_id
    IN [channels |-> [map.channels EXCEPT ![dk] = <<>>],
        local_id |-> local, remote_id |-> remote]

\* --------------------------------------------------------- protocol side
\* The keys of the two channels a side and its remote end open.
OpenKeys == {1, 2}

\* Message::Open and Message::Close; Request and Data are those of the
\* replication layer.
MessageOpen(dk, tag) ==
    [type |-> "Open", discovery_key |-> dk, capability |-> tag]

MessageClose(dk) == [type |-> "Close", discovery_key |-> dk]

ChannelMessage(channel, message) == [channel |-> channel, message |-> message]

EventOpen(dk) == <<"Open", dk>>

EventClose(dk) == <<"Close", dk>>

EventDiscoveryKey(dk) == <<"DiscoveryKey", dk>>

EventMessage(dk, message) == <<"Message", dk, message>>

\* HandshakeResult::capability: the tag derived from the shared secret of
\* the handshake and the channel key.
HandshakeCapability(handshake, key) == <<<<"capability", handshake, key>>>>

\* HandshakeResult::verify_remote_capability: the tag has to be the one
\* derived from the same key and shared secret.
HandshakeVerifyRemoteCapability(handshake, tag, key) ==
    IF tag = HandshakeCapability(handshake, key)
    THEN "Ok" ELSE "PermissionDenied"

\* Protocol::capability
capability(p, key) ==
    IF p.handshake # <<>> THEN HandshakeCapability(p.handshake[1], key)
    ELSE <<>>

\* Protocol::verify_remote_capability
verify_remote_capability(p, remote_capability, key) ==
    IF p.handshake # <<>>
    THEN HandshakeVerifyRemoteCapability(p.handshake[1], remote_capability,
                                         key)
    ELSE "PermissionDenied"

\* ChannelMap::prepare_to_verify followed by verify_remote_capability.
Verify(p, local_id) ==
    LET channel_handle == get_local(p.channels, local_id)
    IN IF channel_handle = <<>> THEN "NotFound"
       ELSE IF ~is_connected(channel_handle[1]) THEN "NotConnected"
       ELSE verify_remote_capability(
                p, channel_handle[1].remote_state[1].remote_capability,
                channel_handle[1].local_state[1].key)

\* Protocol::queue_event
queue_event(p, event) == [p EXCEPT !.queued_events = Append(@, event)]

\* Protocol::open: the side afterwards; res is the Result of the call.
open(p, key) ==
    LET a == attach_local(p.channels, key)
        dk == discovery_key(key)
        attached == [p EXCEPT !.channels = a.map]
        connected == is_connected(a.map.channels[dk][1])
        verified == IF connected THEN Verify(attached, a.id) ELSE "Ok"
        frame == ChannelMessage(a.id, MessageOpen(dk, capability(p, key)))
        queued == IF connected THEN queue_event(attached, EventOpen(dk))
                  ELSE attached
    IN IF verified # "Ok" THEN [attached EXCEPT !.res = verified]
       ELSE [queued EXCEPT !.queue = Append(@, frame), !.res = "Ok"]

\* Protocol::send
send(p, dk, msg) ==
    LET channel == p.channels.channels[dk]
    IN IF channel = <<>> THEN [p EXCEPT !.res = "Ok"]
       ELSE IF is_connected(channel[1])
       THEN LET frame ==
                  ChannelMessage(channel[1].local_state[1].local_id, msg)
            IN [p EXCEPT !.outbound = Append(@, frame), !.res = "Ok"]
       ELSE [p EXCEPT !.res = "Ok"]

\* Protocol::close
close(p, dk) == send(p, dk, MessageClose(dk))

CloseLocalKeepsChannel(p, local_id) ==
    LET channel == get_local(p.channels, local_id)
    IN IF channel = <<>> THEN p
       ELSE queue_event(p, EventClose(channel[1].discovery_key))

\* Protocol::close_local
close_local(p, local_id) ==
    LET channel == get_local(p.channels, local_id)
    IN IF channel = <<>> THEN p
       ELSE queue_event(
                [p EXCEPT !.channels = remove(@, channel[1].discovery_key)],
                EventClose(channel[1].discovery_key))

\* Protocol::on_outbound_message
on_outbound_message(p, message) ==
    IF message.message.type = "Close" THEN close_local(p, message.channel)
    ELSE p

OnOpenAlwaysOpen(p, ch, msg) ==
    LET dk == msg.discovery_key
    IN queue_event([p EXCEPT !.channels =
                       attach_remote(@, dk, ch, msg.capability)],
                   EventOpen(dk))

\* Protocol::on_open
ProtocolOnOpen(p, ch, msg) ==
    LET dk == msg.discovery_key
        attached == [p EXCEPT !.channels =
                        attach_remote(@, dk, ch, msg.capability)]
        channel_handle == attached.channels.channels[dk][1]
        verified == Verify(attached, channel_handle.local_state[1].local_id)
    IN IF is_connected(channel_handle)
       THEN IF verified # "Ok" THEN [attached EXCEPT !.res = verified]
            ELSE queue_event(attached, EventOpen(dk))
       ELSE queue_event(attached, EventDiscoveryKey(dk))

OnCloseAnyKey(p, remote_id, msg) ==
    LET remote == get_remote(p.channels, remote_id)
    IN IF remote = <<>> THEN p
       ELSE queue_event(
                [p EXCEPT !.channels = remove(@, remote[1].discovery_key)],
                EventClose(remote[1].discovery_key))

\* Protocol::on_close
ProtocolOnClose(p, remote_id, msg) ==
    LET remote == get_remote(p.channels, remote_id)
    IN IF remote = <<>> THEN p
       ELSE IF msg.discovery_key = remote[1].discovery_key
       THEN queue_event(
                [p EXCEPT !.channels = remove(@, remote[1].discovery_key)],
                EventClose(remote[1].discovery_key))
       ELSE p

\* Protocol::on_inbound_message
on_inbound_message(p, channel_message) ==
    LET remote_id == channel_message.channel
        message == channel_message.message
        remote == get_remote(p.channels, remote_id)
    IN IF remote_id = 0 THEN p
       ELSE IF message.type = "Open" THEN ProtocolOnOpen(p, remote_id, message)
       ELSE IF message.type = "Close" THEN ProtocolOnClose(p, remote_id, message)
       ELSE IF remote # <<>>
       THEN queue_event(p, EventMessage(remote[1].discovery_key, message))
       ELSE p

\* Protocol::poll_inbound_read: the frames the reader has are handled one
\* by one until one fails.
RECURSIVE poll_inbound_read(_)
poll_inbound_read(p) ==
    IF p.inbound = <<>> THEN p
    ELSE LET handled == on_inbound_message(
                            [p EXCEPT !.inbound = Tail(@), !.res = "Ok"],
                            Head(p.inbound))
         IN IF handled.res # "Ok" THEN handled
            ELSE poll_inbound_read(handled)

\* WriteState::poll_send. room: a frame fits behind the bytes that are
\* still pending in the buffer (an empty buffer takes any frame); ready:
\* the transport takes the writes and flushes of this poll, or is pending.
\* The bytes of a frame are on the wire once the transport took them.
RECURSIVE poll_send(_, _, _)
poll_send(p, room, ready) ==
    IF p.step = "Processing"
    THEN LET popped == IF p.current_frame = <<>> /\ p.queue # <<>>
                       THEN [p EXCEPT !.current_frame = <<Head(p.queue)>>,
                                      !.queue = Tail(@)]
                       ELSE p
             encoded == IF popped.current_frame # <<>>
                           /\ (popped.buf = <<>> \/ room)
                        THEN [popped EXCEPT
                                !.buf = Append(@, popped.current_frame[1]),
                                !.current_frame = <<>>]
                        ELSE popped
         IN IF encoded.buf = <<>> THEN encoded
            ELSE poll_send([encoded EXCEPT !.step = "Writing"], room, ready)
    ELSE IF ~ready THEN p
    ELSE IF p.step = "Writing"
    THEN poll_send([p EXCEPT !.wire = @ \o p.buf, !.buf = <<>>,
                             !.step = "Flushing"], room, ready)
    ELSE poll_send([p EXCEPT !.step = "Processing"], room, ready)

\* Protocol::poll_outbound_write
RECURSIVE poll_outbound_write(_, _, _)
poll_outbound_write(p, room, ready) ==
    LET sent == poll_send(p, room, ready)
    IN IF sent.current_frame # <<>> \/ sent.outbound = <<>> THEN sent
       ELSE poll_outbound_write(
                [on_outbound_message(
                     [sent EXCEPT !.outbound = Tail(@)], Head(sent.outbound))
                   EXCEPT !.current_frame = <<Head(sent.outbound)>>],
                room, ready)

\* poll_next returning Poll::Ready(Ok(event)): the event is handed up.
Emit(p) ==
    IF p.queued_events = <<>> THEN p
    ELSE [p EXCEPT !.queued_events = Tail(@),
                   !.events = Append(@, Head(p.queued_events))]

\* Protocol::poll_next
poll_next(p, room, ready) ==
    IF p.queued_events # <<>> THEN Emit([p EXCEPT !.res = "Ok"])
    ELSE LET read == poll_inbound_read([p EXCEPT !.res = "Ok"])
         IN IF read.res # "Ok" THEN read
            ELSE Emit(poll_outbound_write(read, room, ready))

\* Protocol::new after the handshake stage: handshake is the result of
\* the handshake, None when noise is disabled.
ProtocolNew(handshake) ==
    [stage |-> "main", handshake |-> handshake, channels |-> ChannelMapNew,
     queued_events |-> <<>>, events |-> <<>>, outbound |-> <<>>,
     queue |-> <<>>, current_frame |-> <<>>, buf |-> <<>>,
     step |-> "Processing", wire |-> <<>>, inbound |-> <<>>,
     calls |-> <<>>, arrived |-> 0, res |-> "Ok"]

\* ReadState::new with a keepalive: the timer is started at once.
ReadStateNew ==
    [now |-> 0, deadline |-> Keepalive, delivered |-> 0, transport |-> 0,
     queued |-> 0, wrote |-> <<>>, res |-> "Pending", by |-> "new"]

\* ------------------------------------------------- runtime with replicas
Keys == 1..MaxReplicas

\* Replication::replicas with nothing attached.
NoReplica == [behind |-> FALSE, attached |-> FALSE]

\* A replica whose on_close fails (behind) or succeeds.
Replica(behind) == [behind |-> behind, attached |-> TRUE]

Attached(replicas) == { key \in Keys : replicas[key].attached }

\* The orders in which the HashMap can iterate over the attached replicas.
Orders(replicas) ==
    { order \in UNION { [1..n -> Keys] : n \in 0..MaxReplicas } :
        /\ Len(order) = Cardinality(Attached(replicas))
        /\ { order[i] : i \in 1..Len(order) } = Attached(replicas) }

RECURSIVE CloseAllUntilError(_, _)
CloseAllUntilError(order, replicas) ==
    IF order = <<>> THEN [closed |-> <<>>, is_error |-> FALSE]
    ELSE IF replicas[Head(order)].behind
    THEN [closed |-> <<Head(order)>>, is_error |-> TRUE]
    ELSE LET rest == CloseAllUntilError(Tail(order), replicas)
         IN [closed |-> <<Head(order)>> \o rest.closed,
             is_error |-> rest.is_error]

\* for (_, replica) in self.replicas.iter_mut()
\*     { is_error |= replica.on_close().await.is_err(); }
\* The replicas on_close was called on, in order, and is_error.
RECURSIVE CloseAll(_, _)
CloseAll(order, replicas) ==
    IF order = <<>> THEN [closed |-> <<>>, is_error |-> FALSE]
    ELSE LET rest == CloseAll(Tail(order), replicas)
         IN [closed |-> <<Head(order)>> \o rest.closed,
             is_error |-> replicas[Head(order)].behind \/ rest.is_error]

\* ------------------------------------------------- reader, byte by byte
MAX_MESSAGE_SIZE == 4194304

\* varinteger::encode of a value below 128 * 128.
VarintEncode(n) ==
    IF n < 128 THEN <<n>> ELSE <<128 + (n % 128), n \div 128>>

\* varinteger::decode on a slice, from its off-th byte: the bytes read and
\* the value. A byte with the high bit set is followed by another one;
\* indexing past the end of the slice panics.
RECURSIVE VarintDecodeFrom(_, _, _, _)
VarintDecodeFrom(slice, off, val, fac) ==
    IF off > Len(slice) THEN <<"Panic">>
    ELSE IF slice[off] < 128 THEN <<"Ok", off, val + fac * slice[off]>>
    ELSE VarintDecodeFrom(slice, off + 1, val + fac * (slice[off] % 128),
                          fac * 128)

VarintDecode(slice) == VarintDecodeFrom(slice, 1, 0, 1)

\* A channel message as the framing sees it: channel, wire type and the
\* bytes of the Protobuf message.
WireMessage(channel, typ, payload) ==
    [channel |-> channel, typ |-> typ, payload |-> payload]

\* Encoder for ChannelMessage: varint(channel << 4 | typ), then the message.
ChannelMessageEncode(m) == VarintEncode(m.channel * 16 + m.typ) \o m.payload

\* ChannelMessage::decode
ChannelMessageDecode(body) ==
    IF body = <<>> THEN <<"Err">>
    ELSE LET header == VarintDecode(body)
         IN IF header[1] = "Panic" THEN <<"Panic">>
            ELSE IF header[3] % 16 > 3 THEN <<"Err">>
            ELSE <<"Ok", WireMessage(header[3] \div 16, header[3] % 16,
                                     SubSeq(body, header[2] + 1, Len(body)))>>

\* Encoder for Frame: varint(body_len), then the body.
FrameEncode(body) == VarintEncode(Len(body)) \o body

\* Frame::decode
FrameDecode(body, frame_type) ==
    IF frame_type = "Raw" THEN <<"Ok", body>> ELSE ChannelMessageDecode(body)

\* The key stream of the cipher of one direction, byte by byte.
KeyStream(pos) == 1 + (pos % 2)

\* Cipher::apply of the sending end, its key stream at pos.
CipherSeal(pos, bytes) ==
    [i \in 1..Len(bytes) |-> (bytes[i] + KeyStream(pos + i - 1)) % 256]

\* Cipher::apply of the receiving end, its key stream at pos.
CipherApply(pos, bytes) ==
    [i \in 1..Len(bytes) |-> (bytes[i] + 256 - KeyStream(pos + i - 1)) % 256]

\* v with the bytes at offsets off.. replaced by `bytes`.
Overwrite(v, off, bytes) ==
    [i \in 1..Len(v) |->
       IF i > off /\ i <= off + Len(bytes) THEN bytes[i - off] ELSE v[i]]

\* Protocol<handshake::Stage>::new with ReadState::new: an empty buffer,
\* raw frames, no cipher. With it the transport: `wire` holds the bytes the
\* remote end wrote that are still in flight, `transport` those a read can
\* take; `sent` the channel messages the remote end wrote, `out` the
\* frames handed up; `polled_empty` whether poll_read was ever given an
\* empty slice; `at_upgrade` the step the reader held when the cipher was
\* installed.
ReadStateBytes ==
    [buf |-> [i \in 1..ReadBufSize |-> 0], start |-> 0, end |-> 0,
     step |-> <<>>, cipher |-> <<>>, frame_type |-> "Raw",
     stage |-> "handshake", complete |-> FALSE, noise |-> TRUE,
     remote |-> "handshake", tx |-> <<>>, wire |-> <<>>, transport |-> <<>>,
     sent |-> <<>>, out |-> <<>>, ret |-> <<>>, res |-> "Ok",
     polled_empty |-> FALSE, at_upgrade |-> <<>>]

\* ReadState::upgrade_with_handshake
upgrade_with_handshake(r) ==
    [r EXCEPT !.buf = Overwrite(@, r.start,
                                CipherApply(0, SubSeq(@, r.start + 1, r.end))),
              !.cipher = <<r.end - r.start>>,
              !.at_upgrade = r.step]

\* ReadState::cycle_buf_if_needed
cycle_buf_if_needed(r) ==
    IF r.end = Len(r.buf)
    THEN [r EXCEPT !.buf = Overwrite(@, 0, SubSeq(@, r.start + 1, r.end)),
                   !.end = r.end - r.start, !.start = 0]
    ELSE r

\* ReadState::process, the loop: ret is None (<<>>), Some(Ok(frame)),
\* Some(Err) or a panic.
RECURSIVE process_loop(_)
process_loop(r) ==
    IF r.step = <<>>
    THEN LET header == VarintDecode(SubSeq(r.buf, r.start + 1, r.end))
         IN IF header[1] = "Panic" THEN [r EXCEPT !.ret = <<"Panic">>]
            ELSE IF header[3] > MAX_MESSAGE_SIZE
            THEN [r EXCEPT !.ret = <<"Err">>]
            ELSE process_loop([r EXCEPT !.step = <<header[2], header[3]>>])
    ELSE LET header_len == r.step[1]
             message_len == r.step[1] + r.step[2]
             resized ==
                IF message_len > Len(r.buf)
                THEN [r EXCEPT !.buf = @ \o [i \in 1..(message_len - Len(@))
                                               |-> 0]]
                ELSE r
         IN IF r.end - r.start < message_len
            THEN [cycle_buf_if_needed(resized) EXCEPT !.ret = <<>>]
            ELSE [resized EXCEPT
                    !.ret = FrameDecode(SubSeq(r.buf, r.start + header_len + 1,
                                               r.start + message_len),
                                        r.frame_type),
                    !.start = @ + message_len,
                    !.step = <<>>]

\* ReadState::process
process(r) ==
    IF r.start = r.end THEN [r EXCEPT !.ret = <<>>] ELSE process_loop(r)

\* ReadState::poll_reader without a keepalive: poll_read takes what the
\* transport holds, as far as buf[end..] has room; nothing read is Pending.
RECURSIVE PollReaderBytes(_)
PollReaderBytes(r) ==
    LET p == process(r)
        room == Len(p.buf) - p.end
        n == IF Len(p.transport) < room THEN Len(p.transport) ELSE room
        fresh == SubSeq(p.transport, 1, n)
    IN IF p.ret # <<>> THEN p
       ELSE IF n = 0
       THEN [p EXCEPT !.polled_empty = @ \/ room = 0]
       ELSE PollReaderBytes(
               [p EXCEPT
                  !.buf = Overwrite(@, p.end,
                                    IF p.cipher # <<>>
                                    THEN CipherApply(p.cipher[1], fresh)
                                    ELSE fresh),
                  !.cipher = IF @ # <<>> THEN <<@[1] + n>> ELSE @,
                  !.end = @ + n,
                  !.transport = SubSeq(@, n + 1, Len(@))])

\* Protocol<main::Stage>::new(io, result)
ProtocolNewBytes(r, encrypted) ==
    [(IF encrypted THEN upgrade_with_handshake(r) ELSE r)
       EXCEPT !.frame_type = "Message", !.stage = "main"]

\* Protocol<handshake::Stage>::poll_inbound_read: frames are read until
\* the reader is pending; each is a handshake message, and the handshake
\* takes none once it is complete.
RECURSIVE HandshakeInboundRead(_)
HandshakeInboundRead(r) ==
    LET p == PollReaderBytes(r)
    IN IF p.ret = <<>> THEN [p EXCEPT !.res = "Ok"]
       ELSE IF p.ret[1] # "Ok" THEN [p EXCEPT !.res = p.ret[1]]
       ELSE IF p.complete THEN [p EXCEPT !.res = "Err"]
       ELSE HandshakeInboundRead([p EXCEPT !.complete = TRUE])

\* Protocol<handshake::Stage>::poll_next and, once it reports the
\* handshake complete, handshake() establishing the main stage.
HandshakePollNext(r) ==
    LET read == HandshakeInboundRead(r)
    IN IF read.res # "Ok" THEN read
       ELSE IF read.complete THEN ProtocolNewBytes(read, TRUE)
       ELSE read

\* Protocol<main::Stage>::poll_inbound_read: frames are read and handed
\* up until the reader is pending.
RECURSIVE MainInboundRead(_)
MainInboundRead(r) ==
    LET p == PollReaderBytes(r)
    IN IF p.ret = <<>> THEN [p EXCEPT !.res = "Ok"]
       ELSE IF p.ret[1] # "Ok" THEN [p EXCEPT !.res = p.ret[1]]
       ELSE MainInboundRead([p EXCEPT !.out = Append(@, p.ret[2])])

\* The two ends of a connection.
Sides == {"a", "b"}

Other(side) == IF side = "a" THEN "b" ELSE "a"

\* CoreIterator::new(core, index): the read task for `index` is created
\* and not yet polled; nothing has been yielded.
\* `seen` keeps the length of the core at each poll.
CoreIteratorNew(idx) ==
    [start |-> idx, task |-> idx, out |-> <<>>, seen |-> <<>>]

InitProto ==
    /\ peers = [side \in Sides |-> ProtocolNew(<<"secret">>)]
    /\ it = CoreIteratorNew(0)
    /\ fr = ReadStateBytes
    /\ rt = [replicas |-> [key \in Keys |-> NoReplica], closed |-> <<>>,
             run |-> "open", by |-> "new"]
    /\ cm = [map |-> ChannelMapNew, free |-> {}, call |-> "new",
             arg |-> 0, id |-> 0]
    /\ pr = [ProtocolNew(<<>>) EXCEPT !.stage = "handshake"]
    /\ rd = ReadStateNew

\* --------------------------------------------------------------- actions
Init ==
    /\ secret_key = [c \in Cores |-> c = "writer"]
    /\ data = [c \in Cores |-> <<>>]
    /\ blocks = [c \in Cores |-> <<>>]
    /\ state = [c \in Cores |-> <<>>]
    /\ core = [c \in Cores |->
                 [open |-> TRUE, merkle |-> MerkleNew(<<>>),
                  length |-> 0, byte_length |-> 0]]
    /\ ret = Ret("new", "writer", "Ok")
    /\ model = [c \in Cores |-> <<>>]
    /\ base = [c \in Cores |-> 0]
    /\ durable = [c \in Cores |-> <<>>]
    /\ faults = 0
    /\ remote_index = [c \in Cores |-> <<>>]
    /\ net = [c \in Cores |-> <<>>]
    /\ run = [c \in Cores |-> "new"]
    /\ lost = 0
    /\ cap = CapOf(Wide(0), TRUE)
    /\ mts = MtsOf(MerkleNew(<<>>), MerkleNew(<<>>), <<>>, <<>>)
    /\ InitProto

\* core.append(content, signature), with the backend failing the writes
\* that `wrote` leaves out.
CoreAppend(c, content, signature, wrote) ==
    /\ core[c].open
    /\ core[c].length < MaxBlocks
    /\ \E prep \in {AppendPrepare(c, content, signature)} :
       \E w \in {AppendWrites(c, content, prep, wrote)} :
          IF prep.res # "Ok"
          THEN /\ AllWritten(wrote)
               /\ core' = [core EXCEPT ![c].merkle = prep.merkle]
               /\ ret' = Ret("append", c, prep.res)
               /\ UNCHANGED <<data, blocks, state, model, durable, faults>>
          ELSE /\ data' = [data EXCEPT ![c] = w.data]
               /\ blocks' = [blocks EXCEPT ![c] = w.blocks]
               /\ state' = [state EXCEPT ![c] = w.state]
               /\ IF AllWritten(wrote)
                  THEN /\ core' = [core EXCEPT ![c] =
                                     Advance([@ EXCEPT !.merkle = prep.merkle],
                                             Len(content))]
                       /\ model' = [model EXCEPT ![c] = Append(@, content)]
                       /\ durable' = [durable EXCEPT ![c] = Append(@, content)]
                       /\ ret' = Ret("append", c, "Ok")
                       /\ UNCHANGED faults
                  ELSE /\ faults < MaxFaults
                       /\ faults' = faults + 1
                       /\ core' = [core EXCEPT ![c].merkle = prep.merkle]
                       /\ ret' = Ret("append", c, "ErrIo")
                       /\ UNCHANGED <<model, durable>>
    /\ UNCHANGED <<secret_key, base>>

\* The process stops inside core.append, after the writes `wrote` names
\* took effect; the handle and all in-memory state are lost.
CoreAppendCrash(c, content, signature, wrote) ==
    /\ core[c].open
    /\ core[c].length < MaxBlocks
    /\ faults < MaxFaults
    /\ faults' = faults + 1
    /\ LET prep == AppendPrepare(c, content, signature)
           w == AppendWrites(c, content, prep, wrote)
       IN /\ prep.res = "Ok"
          /\ data' = [data EXCEPT ![c] = w.data]
          /\ blocks' = [blocks EXCEPT ![c] = w.blocks]
          /\ state' = [state EXCEPT ![c] = w.state]
          /\ durable' = [durable EXCEPT ![c] =
                            IF wrote.state THEN Append(@, content) ELSE @]
    /\ core' = [core EXCEPT ![c] = Closed]
    /\ model' = [model EXCEPT ![c] = <<>>]
    /\ base' = [base EXCEPT ![c] = 0]
    /\ ret' = Ret(IF wrote.state THEN "crash_late" ELSE "crash", c, "Crash")
    /\ UNCHANGED secret_key

\* core.get(idx)
Get(c, idx) ==
    /\ core[c].open
    /\ LET r == CoreGet(c, idx)
       IN ret' = Ret("get", c, r[1])
    /\ UNCHANGED <<core, secret_key, data, blocks, state, model, base, durable,
                   faults>>

\* The handle is dropped; the stores stay.
Close(c) ==
    /\ core[c].open
    /\ core' = [core EXCEPT ![c] = Closed]
    /\ model' = [model EXCEPT ![c] = <<>>]
    /\ base' = [base EXCEPT ![c] = 0]
    /\ ret' = Ret("close", c, "Ok")
    /\ UNCHANGED <<secret_key, data, blocks, state, durable, faults>>

\* Core::new over the stores a previous handle left.
Open(c) ==
    /\ ~core[c].open
    /\ IF CoreNewOk(c)
       THEN /\ core' = [core EXCEPT ![c] = CoreNew(c)]
            /\ base' = [base EXCEPT ![c] = CoreNew(c).length]
            /\ ret' = [Ret("new", c, "Ok") EXCEPT !.after = ret.op]
       ELSE /\ ret' = [Ret("new", c, "Err") EXCEPT !.after = ret.op]
            /\ UNCHANGED <<core, base>>
    /\ UNCHANGED <<secret_key, data, blocks, state, model, durable, faults>>

\* One core over its lifetime: appends, backend errors, crashes, reopening.
Next ==
    /\ \/ \E content \in Contents, wrote \in Wrote :
             CoreAppend("writer", content, <<>>, wrote)
       \/ \E content \in Contents, wrote \in Wrote :
             CoreAppendCrash("writer", content, <<>>, wrote)
       \/ \E idx \in 0..MaxBlocks : Get("writer", idx)
       \/ Close("writer")
       \/ Open("writer")
    /\ UNCHANGED <<repl, cap, mts, proto>>

Spec == Init /\ [][Next]_vars

\* A writer and a replica of it that holds no secret key: the replica is
\* handed the signatures the writer serves.
NextReplica ==
    \E c \in Cores, content \in Contents :
       \E signature \in Signatures(c), wrote \in Wrote :
          /\ CoreAppend(c, content, signature, wrote)
          /\ faults' <= MaxReplicaFaults
          /\ UNCHANGED <<repl, cap, mts, proto>>

SpecReplica == Init /\ [][NextReplica]_vars

\* Two cores that both hold the secret key: each signs its own appends and
\* may also be handed the signatures the other one serves.
InitPeer ==
    /\ secret_key = [c \in Cores |-> TRUE]
    /\ data = [c \in Cores |-> <<>>]
    /\ blocks = [c \in Cores |-> <<>>]
    /\ state = [c \in Cores |-> <<>>]
    /\ core = [c \in Cores |->
                 [open |-> TRUE, merkle |-> MerkleNew(<<>>),
                  length |-> 0, byte_length |-> 0]]
    /\ ret = Ret("new", "writer", "Ok")
    /\ model = [c \in Cores |-> <<>>]
    /\ base = [c \in Cores |-> 0]
    /\ durable = [c \in Cores |-> <<>>]
    /\ faults = 0
    /\ remote_index = [c \in Cores |-> <<>>]
    /\ net = [c \in Cores |-> <<>>]
    /\ run = [c \in Cores |-> "new"]
    /\ lost = 0
    /\ cap = CapOf(Wide(0), TRUE)
    /\ mts = MtsOf(MerkleNew(<<>>), MerkleNew(<<>>), <<>>, <<>>)
    /\ InitProto

SpecPeer == InitPeer /\ [][NextReplica]_vars

\* ----------------------------------------------------------- replication
Peer(c) == IF c = "writer" THEN "replica" ELSE "writer"

\* The Request and Data messages of the protocol schema.
Request(idx) == [type |-> "Request", index |-> idx]

Data(idx, content, signature) ==
    [type |-> "Data", index |-> idx, data |-> content,
     signature |-> signature]

\* Signature bytes of a Data message that are not a 64-byte signature.
Malformed == <<"malformed">>

\* Signature::from_bytes on the signature bytes of a Data message.
SignatureFromBytes(bytes) ==
    IF bytes = Malformed THEN <<"Err">> ELSE <<"Ok", bytes>>

\* Every store write of an append succeeds.
Written == [data |-> TRUE, blocks |-> TRUE, state |-> TRUE]

OnOpenSilent(c) == <<>>

\* CoreReplica::on_open: Some(Request { index: core.len() }).
on_open(c) == <<Request(core[c].length)>>

UpdateRemoteIndexOnce(old, idx) ==
    IF old # <<>> THEN old ELSE <<idx>>

\* CoreReplica::update_remote_index on remote_index = old.
update_remote_index(old, idx) ==
    IF old # <<>> /\ idx <= old[1] THEN old ELSE <<idx>>

OnRequestAlwaysAsks(c, request, remote) ==
    LET r == CoreGet(c, request.index)
    IN IF r[1] = "Err" THEN [res |-> "Err", msgs |-> <<>>]
       ELSE IF r[1] = "Some"
       THEN [res |-> "Ok", msgs |-> <<Data(request.index, r[2], r[3])>>]
       ELSE IF ~LtU32Max(core[c].length)
       THEN [res |-> "Ok", msgs |-> <<>>]
       ELSE [res |-> "Ok", msgs |-> <<Request(core[c].length)>>]

\* CoreReplica::on_request after update_remote_index left `remote` in
\* remote_index: the block at the requested index if there is one,
\* otherwise a request for the own length if the peer is known to hold more.
on_request(c, request, remote) ==
    LET r == CoreGet(c, request.index)
        remote_idx == IF remote = <<>> THEN 0 ELSE remote[1]
    IN IF r[1] = "Err" THEN [res |-> "Err", msgs |-> <<>>]
       ELSE IF r[1] = "Some"
       THEN [res |-> "Ok", msgs |-> <<Data(request.index, r[2], r[3])>>]
       ELSE IF ~LtU32Max(core[c].length) \/ remote_idx <= core[c].length
       THEN [res |-> "Ok", msgs |-> <<>>]
       ELSE [res |-> "Ok", msgs |-> <<Request(core[c].length)>>]

\* CoreReplica::on_data, the reply after a successful append that left the
\* core with `length` blocks (lines 104-111).
on_data_appended(d, length) ==
    IF ~LtU32Max(length) THEN <<>> ELSE <<Request(d.index + 1)>>

OnDataOtherAsksNext(c) == <<Request(core[c].length + 1)>>

\* CoreReplica::on_data for a block that is not the next one (lines 113-117).
on_data_other(c) == <<Request(core[c].length)>>

OnCloseAtOrBelow(c) ==
    IF remote_index[c] # <<>> /\ core[c].length <= remote_index[c][1]
    THEN "Err" ELSE "Ok"

\* CoreReplica::on_close
on_close(c) ==
    IF remote_index[c] # <<>> /\ core[c].length < remote_index[c][1]
    THEN "Err" ELSE "Ok"

\* protocol.request / protocol.data: the queue of messages in flight to
\* `to` after msgs are sent to it; what is written to a runtime that has
\* returned is never read.
Send(to, msgs) ==
    IF run[to] \in {"Ok", "Err", "Panic"} THEN net[to] ELSE net[to] \o msgs

\* q without its k-th message.
Without(q, k) == SubSeq(q, 1, k - 1) \o SubSeq(q, k + 1, Len(q))

\* The cores do nothing.
CoresIdle ==
    UNCHANGED <<core, secret_key, data, blocks, state, ret, model, base,
                durable, faults>>

\* core.append of a content of data_length bytes on the core at capacity.
CapAppend(data_length) ==
    /\ cap.alive
    /\ cap.calls < MaxNearCapacity
    /\ LET r == AppendCounters(cap.core, data_length, cap.overflow_checks)
       IN cap' = [cap EXCEPT !.core = r.core, !.prev = cap.core,
                             !.alive = r.res # "Panic", !.calls = @ + 1,
                             !.ret = [op |-> "append", arg |-> data_length,
                                      res |-> r.res]]
    /\ CoresIdle
    /\ UNCHANGED <<repl, mts, proto>>

\* core.get(idx) on the core at capacity.
CapGet(idx) ==
    /\ cap.alive
    /\ cap.calls < MaxNearCapacity
    /\ cap' = [cap EXCEPT !.prev = cap.core, !.calls = @ + 1,
                          !.ret = [op |-> "get", arg |-> idx,
                                   res |-> GetCounters(cap.core, idx)]]
    /\ CoresIdle
    /\ UNCHANGED <<repl, mts, proto>>

\* core.head() on the core at capacity.
CapHead ==
    /\ cap.alive
    /\ cap.calls < MaxNearCapacity
    /\ cap' = [cap EXCEPT !.prev = cap.core, !.calls = @ + 1,
                          !.ret = [op |-> "head",
                                   arg |-> HeadCounters(cap.core).idx,
                                   res |-> HeadCounters(cap.core).res]]
    /\ CoresIdle
    /\ UNCHANGED <<repl, mts, proto>>

\* A core opened with its length near either end of the u32 range, built
\* with or without overflow checks.
InitCapacity ==
    /\ secret_key = [c \in Cores |-> c = "writer"]
    /\ data = [c \in Cores |-> <<>>]
    /\ blocks = [c \in Cores |-> <<>>]
    /\ state = [c \in Cores |-> <<>>]
    /\ core = [c \in Cores |->
                 [open |-> TRUE, merkle |-> MerkleNew(<<>>),
                  length |-> 0, byte_length |-> 0]]
    /\ ret = Ret("new", "writer", "Ok")
    /\ model = [c \in Cores |-> <<>>]
    /\ base = [c \in Cores |-> 0]
    /\ durable = [c \in Cores |-> <<>>]
    /\ faults = 0
    /\ remote_index = [c \in Cores |-> <<>>]
    /\ net = [c \in Cores |-> <<>>]
    /\ run = [c \in Cores |-> "new"]
    /\ lost = 0
    /\ cap \in { CapOf(length, overflow_checks) :
                   length \in NearCapacity, overflow_checks \in BOOLEAN }
    /\ mts = MtsOf(MerkleNew(<<>>), MerkleNew(<<>>), <<>>, <<>>)
    /\ InitProto

NextCapacity ==
    \/ \E data_length \in DataLengths : CapAppend(data_length)
    \/ \E idx \in NearCapacity : CapGet(idx)
    \/ CapHead

SpecCapacity == InitCapacity /\ [][NextCapacity]_vars

\* The same leaf is fed to both Merkle streams.
MtsNextSame(leaf) ==
    /\ Len(mts.la) < MaxLeaves
    /\ mts' = MtsOf(MtsFeed(mts.a, leaf), MtsFeed(mts.b, leaf),
                    Append(mts.la, leaf), Append(mts.lb, leaf))
    /\ CoresIdle
    /\ UNCHANGED <<repl, cap, proto>>

\* One element of the sequence is replaced: the second stream is fed
\* `update` where the first is fed `leaf`.
MtsNextReplaced(leaf, update) ==
    /\ Len(mts.la) < MaxLeaves
    /\ mts.la = mts.lb
    /\ leaf # update
    /\ mts' = MtsOf(MtsFeed(mts.a, leaf), MtsFeed(mts.b, update),
                    Append(mts.la, leaf), Append(mts.lb, update))
    /\ CoresIdle
    /\ UNCHANGED <<repl, cap, proto>>

NextMerkle ==
    \/ \E leaf \in Leaves : MtsNextSame(leaf)
    \/ \E leaf \in Leaves, update \in Leaves : MtsNextReplaced(leaf, update)

SpecMerkle == Init /\ [][NextMerkle]_vars

\* append(content, None) by the application that holds core c.
LocalAppend(c, content, wrote) ==
    /\ CoreAppend(c, content, <<>>, wrote)
    /\ UNCHANGED <<repl, cap, mts, proto>>

\* Event::Open at the runtime of c: the channel is connected on both
\* sides, replica_on_open sends what on_open returns.
ReplicaOnOpen(c) ==
    /\ run[c] = "new"
    /\ core[c].open
    /\ run' = [run EXCEPT ![c] = "open"]
    /\ net' = [net EXCEPT ![Peer(c)] = Send(Peer(c), on_open(c))]
    /\ CoresIdle
    /\ UNCHANGED <<remote_index, lost, cap, mts, proto>>

\* Command::ReOpen at the runtime of c.
ReOpen(c) ==
    /\ run[c] = "open"
    /\ lost < MaxNetFaults
    /\ lost' = lost + 1
    /\ net' = [net EXCEPT ![Peer(c)] = Send(Peer(c), on_open(c))]
    /\ CoresIdle
    /\ UNCHANGED <<remote_index, run, cap, mts, proto>>

\* replica_on_request at the runtime of c; `rest` is what stays in flight
\* to c. An error of the replica ends run() with that error.
ReplicaOnRequest(c, request, rest) ==
    /\ remote_index' =
          [remote_index EXCEPT ![c] = update_remote_index(@, request.index)]
    /\ LET reply == on_request(c, request,
                               update_remote_index(remote_index[c],
                                                   request.index))
       IN IF reply.res = "Err"
          THEN /\ run' = [run EXCEPT ![c] = "Err"]
               /\ net' = [net EXCEPT ![c] = rest]
          ELSE /\ net' = [net EXCEPT ![c] = rest,
                                     ![Peer(c)] = Send(Peer(c), reply.msgs)]
               /\ UNCHANGED run
    /\ CoresIdle
    /\ UNCHANGED <<cap, mts, proto>>

\* replica_on_data at the runtime of c: the block is appended with its
\* signatures when it is the next one; `wrote` says which store writes of
\* that append succeed. Both signatures are unwrapped from
\* Signature::from_bytes before the append: an Err there panics the task.
ReplicaOnData(c, d, rest, wrote) ==
    /\ IF d.index = core[c].length
       THEN IF \/ SignatureFromBytes(d.signature.data)[1] = "Err"
               \/ SignatureFromBytes(d.signature.tree)[1] = "Err"
            THEN /\ wrote = Written
                 /\ run' = [run EXCEPT ![c] = "Panic"]
                 /\ net' = [net EXCEPT ![c] = rest]
                 /\ CoresIdle
            ELSE /\ CoreAppend(c, d.data, <<d.signature>>, wrote)
                 /\ IF ret'.res = "Ok"
                    THEN /\ net' = [net EXCEPT
                                      ![c] = rest,
                                      ![Peer(c)] =
                                         Send(Peer(c),
                                              on_data_appended(
                                                 d, core'[c].length))]
                         /\ UNCHANGED run
                    ELSE /\ run' = [run EXCEPT ![c] = "Err"]
                         /\ net' = [net EXCEPT ![c] = rest]
       ELSE /\ wrote = Written
            /\ net' = [net EXCEPT ![c] = rest,
                                  ![Peer(c)] = Send(Peer(c), on_data_other(c))]
            /\ CoresIdle
            /\ UNCHANGED run
    /\ UNCHANGED <<remote_index, cap, mts, proto>>

\* Event::Message at the runtime of c for the k-th message in flight to
\* it; with `keep` the transport delivers a copy and the message stays in
\* flight.
HandleEvent(c, k, keep, wrote) ==
    /\ run[c] = "open"
    /\ k \in 1..Len(net[c])
    /\ LET msg == net[c][k]
           rest == IF keep THEN net[c] ELSE Without(net[c], k)
       IN IF msg.type = "Request"
          THEN wrote = Written /\ ReplicaOnRequest(c, msg, rest)
          ELSE ReplicaOnData(c, msg, rest, wrote)

\* The transport delivers the k-th message in flight to c as it should.
Deliver(c, k, keep, wrote) ==
    /\ HandleEvent(c, k, keep, wrote)
    /\ UNCHANGED lost

\* The read keepalive of c expires: handle_event calls on_close and run()
\* returns. The keepalive window is longer than the time a message in
\* flight takes to be delivered and answered, so it expires only when
\* nothing is in flight to c and the peer has nothing left to answer.
Timeout(c) ==
    /\ run[c] = "open"
    /\ net[c] = <<>>
    /\ run[Peer(c)] # "new"
    /\ run[Peer(c)] = "open" => net[Peer(c)] = <<>>
    /\ run' = [run EXCEPT ![c] = on_close(c)]
    /\ CoresIdle
    /\ UNCHANGED <<remote_index, net, lost, cap, mts, proto>>

\* One step of Replication::run of c over a reliable in-order transport.
RunStep(c) ==
    \/ ReplicaOnOpen(c)
    \/ Deliver(c, 1, FALSE, Written)
    \/ Timeout(c)

\* The Data messages a peer that does not follow the protocol can send
\* for a block: signature bytes that are no signature in either place, or
\* the all-zero signature in both.
Forged ==
    { Data(idx, content, signature) :
        idx \in 0..MaxBlocks, content \in Contents,
        signature \in { BlockSignature(Malformed, ZeroSig),
                        BlockSignature(ZeroSig, Malformed),
                        BlockSignature(ZeroSig, ZeroSig) } }

\* The peer of c sends it the Data message d for its next block.
Forge(c, d) ==
    /\ run[c] = "open"
    /\ d.index = core[c].length
    /\ lost = 0
    /\ lost' = lost + 1
    /\ net' = [net EXCEPT ![c] = Append(@, d)]
    /\ CoresIdle
    /\ UNCHANGED <<remote_index, run, cap, mts, proto>>

\* A replication session over a reliable in-order transport with a peer
\* that sends one Data message of its own making.
NextForged ==
    \/ \E content \in Contents :
          run["writer"] = "new" /\ LocalAppend("writer", content, Written)
    \/ \E c \in Cores : RunStep(c)
    \/ \E c \in Cores, d \in Forged : Forge(c, d)

SpecForged == Init /\ [][NextForged]_vars

\* ------------------------------------------------------------ iterator
\* The read task of a CoreIterator run to its end: (index, Some(data)) if
\* core.get(index) is Ok(Some(..)), (index, None) otherwise. An Option is
\* <<>> for None and <<x>> for Some(x).
create_read_task(idx) ==
    LET result == CoreGet("writer", idx)
    IN IF result[1] = "Some" THEN <<idx, <<result[2]>>>> ELSE <<idx, <<>>>>

ItOnly ==
    CoresIdle /\ UNCHANGED <<repl, cap, mts, rt, cm, pr, rd, peers, fr>>

\* CoreIterator::new(core, index) on the shared core.
ItNew(idx) ==
    /\ it.seen = <<>>
    /\ it' = CoreIteratorNew(idx)
    /\ ItOnly

\* CoreIterator::poll_next when the read task is ready with `done`: the
\* task for index + 1 replaces it and data.map(|data| (index, data)) is
\* yielded.
CoreIteratorPollNext(i, done) ==
    [i EXCEPT !.task = done[1] + 1,
              !.out = Append(@, IF done[2] = <<>> THEN <<>>
                                ELSE <<<<done[1], done[2][1]>>>>),
              !.seen = Append(@, core["writer"].length)]

\* iter.next().await
ItPoll ==
    /\ Len(it.seen) < MaxPolls
    /\ core["writer"].open
    /\ it' = CoreIteratorPollNext(it, create_read_task(it.task))
    /\ ItOnly

\* A CoreIterator over the writer's core while the application goes on
\* appending to it.
NextIter ==
    \/ \E idx \in 0..MaxBlocks : ItNew(idx)
    \/ \E content \in Contents : LocalAppend("writer", content, Written)
    \/ ItPoll

SpecIter == Init /\ [][NextIter]_vars

\* A replication session over a reliable in-order transport: the writer
\* holds its blocks before it opens the channel.
NextSync ==
    \/ \E content \in Contents :
          run["writer"] = "new" /\ LocalAppend("writer", content, Written)
    \/ \E c \in Cores : RunStep(c)
    \/ \E c \in Cores : ReOpen(c)

SpecSync ==
    Init /\ [][NextSync]_vars /\ \A c \in Cores : WF_vars(RunStep(c))

\* The transport loses a message in flight to c.
Drop(c, k) ==
    /\ k \in 1..Len(net[c])
    /\ lost < MaxNetFaults
    /\ lost' = lost + 1
    /\ net' = [net EXCEPT ![c] = Without(@, k)]
    /\ CoresIdle
    /\ UNCHANGED <<remote_index, run, cap, mts, proto>>

\* A message is delivered out of order (k > 1) or twice (keep).
DeliverFaulty(c, k, keep, wrote) ==
    /\ k > 1 \/ keep
    /\ lost < MaxNetFaults
    /\ lost' = lost + 1
    /\ HandleEvent(c, k, keep, wrote)

\* A replication session over a transport that loses, duplicates and
\* reorders messages, while the writer goes on appending and the store
\* writes of the replica's appends can fail. No reopen is commanded.
NextNet ==
    \/ \E content \in Contents : LocalAppend("writer", content, Written)
    \/ \E c \in Cores : ReplicaOnOpen(c)
    \/ \E c \in Cores, wrote \in Wrote :
          /\ Deliver(c, 1, FALSE, wrote)
          /\ faults' <= MaxReplicaFaults
    \/ \E c \in Cores, k \in 1..(2 + MaxNetFaults), keep \in BOOLEAN :
          DeliverFaulty(c, k, keep, Written)
    \/ \E c \in Cores, k \in 1..(2 + MaxNetFaults) : Drop(c, k)
    \/ \E c \in Cores : Timeout(c)

SpecNet == Init /\ [][NextNet]_vars

\* The block the live writer appends at a length: the contents in turn.
LiveContent(length) == ContentOf(1 + (length % MaxContents))

\* A live replication session over a reliable in-order transport: both
\* cores start empty, the writer appends while its runtime is running and
\* commands a reopen after appends.
NextLive ==
    \/ \E content \in {LiveContent(core["writer"].length)} :
          run["writer"] = "open" /\ LocalAppend("writer", content, Written)
    \/ \E c \in Cores : RunStep(c)
    \/ ReOpen("writer")

SpecLive ==
    Init /\ [][NextLive]_vars /\ \A c \in Cores : WF_vars(RunStep(c))

\* Nothing but the channel map on its own moves.
CmOnly == CoresIdle /\ UNCHANGED <<repl, cap, mts, rt, pr, rd, peers, it, fr>>

\* The local ids that are free: at least 1 and holding None.
FreeLocalIds(map) ==
    { i \in 1..(Len(map.local_id) - 1) : At(map.local_id, i) = <<>> }

\* channels.attach_local(key), also for a key that has a local handle
\* already (Protocol::open called again with the same key).
CmAttachLocal(key) ==
    /\ Len(cm.map.local_id) <= MaxChannels
    /\ LET a == attach_local(cm.map, key)
       IN cm' = [map |-> a.map, free |-> FreeLocalIds(cm.map),
                 call |-> "attach_local", arg |-> key, id |-> a.id]
    /\ CmOnly

\* channels.attach_remote(discovery_key, remote_id, None) for a key that
\* has no remote handle.
CmAttachRemote(key, remote_id) ==
    /\ LET channel == cm.map.channels[discovery_key(key)]
       IN IF channel = <<>> THEN TRUE ELSE channel[1].remote_state = <<>>
    /\ cm' = [map |-> attach_remote(cm.map, discovery_key(key), remote_id,
                                    <<>>),
              free |-> FreeLocalIds(cm.map), call |-> "attach_remote",
              arg |-> key, id |-> remote_id]
    /\ CmOnly

\* channels.remove(discovery_key)
CmRemove(key) ==
    /\ cm' = [map |-> remove(cm.map, discovery_key(key)),
              free |-> FreeLocalIds(cm.map), call |-> "remove",
              arg |-> key, id |-> 0]
    /\ CmOnly

NextChannels ==
    \/ \E key \in ChannelKeys : CmAttachLocal(key)
    \/ \E key \in ChannelKeys, remote_id \in 1..MaxChannels :
          CmAttachRemote(key, remote_id)
    \/ \E key \in ChannelKeys : CmRemove(key)

SpecChannels == Init /\ [][NextChannels]_vars

\* Nothing but the protocol side moves.
PrOnly == CoresIdle /\ UNCHANGED <<repl, cap, mts, rt, cm, rd, peers, it, fr>>

\* The side is in its main stage and no call or poll has failed: an error
\* ends the use of the Protocol.
Running == pr.stage = "main" /\ pr.res = "Ok" /\ Len(pr.calls) < MaxCalls

\* The calls made so far on channels with a local id: for each the frame
\* it stands for.
Call(p, frame) == p.calls \o frame

\* Protocol::handshake, with or without noise, then Protocol::new.
Handshake(noise) ==
    /\ pr.stage = "handshake"
    /\ pr' = ProtocolNew(IF noise THEN <<"secret">> ELSE <<>>)
    /\ PrOnly

\* protocol.open(key)
ProtocolOpen(key) ==
    /\ Running
    /\ \E opened \in {open(pr, key)} :
          pr' = [opened EXCEPT
                   !.calls =
                      Call(pr, IF opened.res = "Ok"
                               THEN <<opened.queue[Len(opened.queue)]>>
                               ELSE <<>>)]
    /\ PrOnly

\* The frame a send on the channel stands for.
FrameOf(p, dk, msg) ==
    LET channel == p.channels.channels[dk]
    IN IF channel = <<>> THEN <<>>
       ELSE IF channel[1].local_state = <<>> THEN <<>>
       ELSE <<ChannelMessage(channel[1].local_state[1].local_id, msg)>>

\* protocol.close(discovery_key)
ProtocolClose(key) ==
    /\ Running
    /\ LET dk == discovery_key(key)
       IN pr' = [close(pr, dk) EXCEPT
                   !.calls = Call(pr, FrameOf(pr, dk, MessageClose(dk)))]
    /\ PrOnly

\* protocol.request(discovery_key, msg)
ProtocolRequest(key, msg) ==
    /\ Running
    /\ LET dk == discovery_key(key)
       IN pr' = [send(pr, dk, msg) EXCEPT
                   !.calls = Call(pr, FrameOf(pr, dk, msg))]
    /\ PrOnly

\* The channel ids the remote end uses.
RemoteIds == {1, 2}

\* The frames the remote end can send: it opens the channel of a key on
\* the id of that key, with the capability or without, closes any channel
\* on any id, and requests on the first.
RemoteFrames ==
    { ChannelMessage(key, MessageOpen(discovery_key(key), <<>>)) :
        key \in OpenKeys }
    \cup { ChannelMessage(key, MessageOpen(discovery_key(key),
                              HandshakeCapability("secret", key))) :
             key \in OpenKeys }
    \cup { ChannelMessage(ch, MessageClose(discovery_key(key))) :
             ch \in RemoteIds, key \in OpenKeys }
    \cup { ChannelMessage(1, Request(0)) }

\* The transport delivers a frame of the remote end to the reader.
Arrive(frame) ==
    /\ pr.stage = "main" /\ pr.res = "Ok"
    /\ pr.arrived < MaxFrames
    /\ pr' = [pr EXCEPT !.inbound = Append(@, frame), !.arrived = @ + 1]
    /\ PrOnly

\* protocol.next() is polled.
PollNext(room, ready) ==
    /\ pr.stage = "main" /\ pr.res = "Ok"
    /\ pr' = poll_next(pr, room, ready)
    /\ PrOnly

\* One side with a transport that takes every write, against a remote
\* end that sends any frames.
NextProtocol ==
    \/ \E noise \in BOOLEAN : Handshake(noise)
    \/ \E key \in OpenKeys : ProtocolOpen(key)
    \/ \E key \in OpenKeys : ProtocolClose(key)
    \/ \E frame \in RemoteFrames : Arrive(frame)
    \/ PollNext(TRUE, TRUE)

SpecProtocol == Init /\ [][NextProtocol]_vars

\* One side after a noise handshake, with a transport that can be pending
\* at any write, against a remote end that opens channels.
NextWire ==
    \/ Handshake(TRUE)
    \/ \E key \in OpenKeys : ProtocolOpen(key)
    \/ \E key \in OpenKeys : ProtocolClose(key)
    \/ \E key \in OpenKeys : ProtocolRequest(key, Request(0))
    \/ \E key \in OpenKeys :
          Arrive(ChannelMessage(key, MessageOpen(discovery_key(key),
                                     HandshakeCapability("secret", key))))
    \/ \E room, ready \in BOOLEAN : PollNext(room, ready)

SpecWire == Init /\ [][NextWire]_vars

\* Nothing but the reader with its keepalive timer moves.
RdOnly == CoresIdle /\ UNCHANGED <<repl, cap, mts, rt, cm, pr, peers, it, fr>>

\* ------------------------------------------------- reader, byte by byte
FrOnly ==
    CoresIdle /\ UNCHANGED <<repl, cap, mts, rt, cm, pr, rd, peers, it>>

\* Lengths of the Protobuf messages the remote end sends.
PayloadLens == {0, 127}

\* The channel messages the remote end sends: requests and data on its
\* first channel.
WireMessages ==
    { WireMessage(1, 2, [i \in 1..n |-> 8]) : n \in PayloadLens }

\* The body of the last handshake message of the remote end.
LastHandshakeMessage == <<7>>

\* handshake() with noise disabled, at both ends: the main stage is
\* established at once, without a cipher.
FrEstablishPlain ==
    /\ fr.stage = "handshake" /\ fr.remote = "handshake"
    /\ fr' = [ProtocolNewBytes(fr, FALSE) EXCEPT !.noise = FALSE,
                                                 !.remote = "main"]
    /\ FrOnly

\* The remote end writes its last handshake message and installs the
\* cipher of its sending direction.
FrRemoteHandshake ==
    /\ fr.remote = "handshake"
    /\ fr' = [fr EXCEPT !.wire = @ \o FrameEncode(LastHandshakeMessage),
                        !.remote = "main", !.tx = <<0>>]
    /\ FrOnly

\* The remote end, in its main stage, writes a channel message.
FrRemoteSend(m) ==
    /\ fr.remote = "main"
    /\ Len(fr.sent) < MaxFrames
    /\ LET bytes == FrameEncode(ChannelMessageEncode(m))
       IN fr' = [fr EXCEPT
                   !.wire = @ \o (IF fr.tx # <<>>
                                  THEN CipherSeal(fr.tx[1], bytes)
                                  ELSE bytes),
                   !.tx = IF @ # <<>> THEN <<@[1] + Len(bytes)>> ELSE @,
                   !.sent = Append(@, m)]
    /\ FrOnly

\* The next n bytes in flight reach the transport of the reader.
FrArrive(n) ==
    /\ n \in 1..Len(fr.wire)
    /\ fr' = [fr EXCEPT !.transport = @ \o SubSeq(fr.wire, 1, n),
                        !.wire = SubSeq(@, n + 1, Len(@))]
    /\ FrOnly

\* The Protocol of the reader is polled, in the stage it is in.
FrPoll ==
    /\ fr.res = "Ok"
    /\ fr' = IF fr.stage = "handshake" THEN HandshakePollNext(fr)
             ELSE MainInboundRead(fr)
    /\ FrOnly

\* A reader and the bytes a remote end sends it, arriving one by one or
\* all at once, which between two polls makes pieces of any size.
NextReader ==
    \/ FrEstablishPlain
    \/ FrRemoteHandshake
    \/ \E m \in WireMessages : FrRemoteSend(m)
    \/ \E all \in BOOLEAN : FrArrive(IF all THEN Len(fr.wire) ELSE 1)
    \/ FrPoll

SpecReader == Init /\ [][NextReader]_vars

\* ------------------------------------------------- both ends connected
PeersOnly ==
    CoresIdle /\ UNCHANGED <<repl, cap, mts, rt, cm, pr, rd, it, fr>>

\* protocol.open(key) at one end, once per key.
PeerOpen(side, key) ==
    /\ peers[side].res = "Ok"
    /\ \A i \in 1..Len(peers[side].calls) :
          ~(/\ peers[side].calls[i].message.type = "Open"
            /\ peers[side].calls[i].message.discovery_key =
                  discovery_key(key))
    /\ \E opened \in {open(peers[side], key)} :
          peers' = [peers EXCEPT
                      ![side] =
                         [opened EXCEPT
                            !.calls =
                               Call(peers[side],
                                    IF opened.res = "Ok"
                                    THEN <<opened.queue[Len(opened.queue)]>>
                                    ELSE <<>>)]]
    /\ PeersOnly

\* protocol.close(discovery_key) at one end.
PeerClose(side, key) ==
    /\ peers[side].res = "Ok"
    /\ Len(peers[side].calls) < MaxCalls
    /\ LET dk == discovery_key(key)
       IN peers' = [peers EXCEPT
                      ![side] =
                         [close(peers[side], dk) EXCEPT
                            !.calls = Call(peers[side],
                                           FrameOf(peers[side], dk,
                                                   MessageClose(dk)))]]
    /\ PeersOnly

\* protocol.next() is polled at one end; the transport takes every write.
PeerPoll(side) ==
    /\ peers[side].res = "Ok"
    /\ peers' = [peers EXCEPT ![side] = poll_next(@, TRUE, TRUE)]
    /\ PeersOnly

\* The transport hands the reader of one end the next frame the other
\* end wrote.
PeerTransfer(side) ==
    /\ peers[side].res = "Ok"
    /\ peers[side].arrived < Len(peers[Other(side)].wire)
    /\ peers' = [peers EXCEPT
                   ![side] =
                      [@ EXCEPT
                         !.inbound =
                            Append(@, peers[Other(side)].wire[
                                          peers[side].arrived + 1]),
                         !.arrived = @ + 1]]
    /\ PeersOnly

\* The key of the channel the two ends open with each other.
PeerKeys == {1}

\* Two ends after establish(): each opens and closes the channel and
\* polls, in any order.
NextPeers ==
    \/ \E side \in Sides, key \in PeerKeys : PeerOpen(side, key)
    \/ \E side \in Sides, key \in PeerKeys : PeerClose(side, key)
    \/ \E side \in Sides : PeerPoll(side)
    \/ \E side \in Sides : PeerTransfer(side)

SpecPeers == Init /\ [][NextPeers]_vars

\* ReadState::poll_reader, called until it is pending: a read that
\* delivers bytes resets the timer to a full window and the loop goes on;
\* a read that is pending polls the timer, which is ready once the window
\* is over.
poll_reader(r) ==
    LET read == IF r.transport > 0
                THEN [r EXCEPT !.transport = 0,
                               !.deadline = r.now + Keepalive,
                               !.delivered = r.now]
                ELSE r
    IN IF read.now >= read.deadline
       THEN [read EXCEPT !.res = "TimedOut"]
       ELSE [read EXCEPT !.res = "Pending"]

PollWriteResetsTimer(r) ==
    IF r.queued > 0
    THEN [r EXCEPT !.queued = 0, !.wrote = <<r.now>>,
                   !.deadline = r.now + Keepalive]
    ELSE r

\* WriteState::poll_send with a transport that takes the bytes: the
\* queued frames are written.
poll_write(r) ==
    IF r.queued > 0 THEN [r EXCEPT !.queued = 0, !.wrote = <<r.now>>]
    ELSE r

\* Time passes.
RdTick ==
    /\ rd.res # "TimedOut"
    /\ rd.now < MaxTime
    /\ rd' = [rd EXCEPT !.now = @ + 1, !.by = "tick"]
    /\ RdOnly

\* Bytes of the remote end reach the transport.
RdArrive ==
    /\ rd.res # "TimedOut"
    /\ rd.transport < MaxFrames
    /\ rd' = [rd EXCEPT !.transport = @ + 1, !.by = "arrive"]
    /\ RdOnly

\* A call on the protocol queues a frame for the writer.
RdQueue ==
    /\ rd.res # "TimedOut"
    /\ rd.queued < MaxCalls
    /\ rd' = [rd EXCEPT !.queued = @ + 1, !.by = "queue"]
    /\ RdOnly

\* Protocol::poll_next: poll_inbound_read, and unless that failed,
\* poll_outbound_write.
RdPoll ==
    /\ rd.res # "TimedOut"
    /\ LET read == poll_reader(rd)
       IN rd' = [(IF read.res = "TimedOut" THEN read ELSE poll_write(read))
                   EXCEPT !.by = "poll_next"]
    /\ RdOnly

NextKeepalive == RdTick \/ RdArrive \/ RdQueue \/ RdPoll

SpecKeepalive == Init /\ [][NextKeepalive]_vars

\* Nothing but the runtime with several replicas moves.
RtOnly == CoresIdle /\ UNCHANGED <<repl, cap, mts, cm, pr, rd, peers, it, fr>>

\* Command::Open(key, replica): the replica is inserted for its key.
RtOpen(key, behind) ==
    /\ rt.run = "open"
    /\ rt' = [rt EXCEPT !.replicas[key] = Replica(behind), !.by = "open"]
    /\ RtOnly

\* A Request or Data message for the replica of `key` is handled: the
\* replica falls behind what its peer advertised, or catches up.
RtMessage(key) ==
    /\ rt.run = "open"
    /\ rt.replicas[key].attached
    /\ rt' = [rt EXCEPT !.replicas[key].behind = ~@, !.by = "message"]
    /\ RtOnly

\* on_open, on_request or on_data of the replica of `key`, or the send of
\* its answer, fails: the error leaves handle_event and run() through `?`.
RtFail(key) ==
    /\ rt.run = "open"
    /\ rt.replicas[key].attached
    /\ rt' = [rt EXCEPT !.closed = <<>>, !.run = "Err", !.by = "failed"]
    /\ RtOnly

\* Command::Close(key): the replica is removed; on_close is not called.
RtCommandClose(key) ==
    /\ rt.run = "open"
    /\ rt' = [rt EXCEPT !.replicas[key] = NoReplica, !.by = "command_close"]
    /\ RtOnly

\* ProtocolEvent::Close(discovery): on_close of that replica alone; its
\* error ends run(), otherwise the replica is removed.
RtRemoteClose(key) ==
    /\ rt.run = "open"
    /\ rt' = IF rt.replicas[key].attached /\ rt.replicas[key].behind
             THEN [rt EXCEPT !.closed = <<key>>, !.run = "Err",
                             !.by = "close"]
             ELSE [rt EXCEPT !.replicas[key] = NoReplica, !.by = "closed"]
    /\ RtOnly

\* Command::Quit()
RtQuit(order) ==
    /\ rt.run = "open"
    /\ LET all == CloseAll(order, rt.replicas)
       IN rt' = [rt EXCEPT !.closed = all.closed,
                           !.run = IF all.is_error THEN "Err" ELSE "Ok",
                           !.by = "quit"]
    /\ RtOnly

\* handle_event on an Err event of the protocol (keepalive timeout).
RtError(order) ==
    /\ rt.run = "open"
    /\ LET all == CloseAll(order, rt.replicas)
       IN rt' = [rt EXCEPT !.closed = all.closed,
                           !.run = IF all.is_error THEN "Err" ELSE "Ok",
                           !.by = "error"]
    /\ RtOnly

NextRuntime ==
    \/ \E key \in Keys, behind \in BOOLEAN : RtOpen(key, behind)
    \/ \E key \in Keys : RtMessage(key)
    \/ \E key \in Keys : RtFail(key)
    \/ \E key \in Keys : RtCommandClose(key)
    \/ \E key \in Keys : RtRemoteClose(key)
    \/ \E order \in Orders(rt.replicas) : RtQuit(order)
    \/ \E order \in Orders(rt.replicas) : RtError(order)

SpecRuntime == Init /\ [][NextRuntime]_vars

\* ------------------------------------------------------------ properties
RECURSIVE SumLen(_)
SumLen(contents) ==
    IF contents = <<>> THEN 0
    ELSE Len(Head(contents)) + SumLen(Tail(contents))

RECURSIVE Concat(_)
Concat(contents) ==
    IF contents = <<>> THEN <<>>
    ELSE Head(contents) \o Concat(Tail(contents))

\* The Merkle stream over a list of contents, as tests/core.rs builds it.
RECURSIVE MerkleOf(_)
MerkleOf(contents) ==
    IF contents = <<>> THEN MerkleNew(<<>>)
    ELSE LET n == Len(contents)
         IN MerkleNext(MerkleOf(SubSeq(contents, 1, n - 1)),
                       from_leaf(contents[n]), Len(contents[n]))

Indices == 0..(MaxBlocks + 1)

C4_LengthIsMerkleBlocks ==
    \A c \in Cores : core[c].open => core[c].length = core[c].merkle.blocks

\* C5: on a core opened over empty state, after any appends byte_length is
\* the sum of the lengths of the successfully appended contents, the
\* record of block i holds the sum of the lengths of blocks 0..i-1 as its
\* offset and the length of content i as its length, the content store
\* starts with the concatenation of the contents in append order, and for
\* length > 0 byte_length is the last record's offset plus its length.
C5_OffsetsAreSums ==
    \A c \in Cores :
       (core[c].open /\ base[c] = 0) =>
          /\ core[c].byte_length = SumLen(model[c])
          /\ \A i \in 0..(core[c].length - 1) :
                /\ StoreBlocksReadOk(blocks[c], i)
                /\ StoreBlocksRead(blocks[c], i).offset =
                      SumLen(SubSeq(model[c], 1, i))
                /\ StoreBlocksRead(blocks[c], i).length = Len(model[c][i + 1])
          /\ Len(data[c]) >= core[c].byte_length
          /\ SubSeq(data[c], 1, core[c].byte_length) = Concat(model[c])
          /\ core[c].length > 0 =>
                LET last == StoreBlocksRead(blocks[c], core[c].length - 1)
                IN core[c].byte_length = last.offset + last.length

C5_Witness ==
    /\ core["writer"].open
    /\ base["writer"] = 0
    /\ Len(model["writer"]) = MaxBlocks
    /\ \A k \in 1..MaxBlocks : Len(model["writer"][k]) > 0
    /\ core["writer"].byte_length > MaxBlocks
    /\ ret = Ret("append", "writer", "Ok")

\* C6: for every index i below len(), the data signature get(i) returns
\* verifies against the leaf hash of content i, and its tree signature
\* verifies against the roots hash of the Merkle stream over exactly the
\* first i+1 blocks, however the block was appended.
C6_SignaturesVerify ==
    \A c \in Cores :
       core[c].open =>
          \A i \in 0..(core[c].length - 1) :
             LET r == CoreGet(c, i)
             IN /\ r[1] = "Some"
                /\ verify(PublicKey, from_leaf(r[2]), r[3].data)
                /\ verify(PublicKey,
                          hash_merkle(MerkleOf(
                             [k \in 1..(i + 1) |-> CoreGet(c, k - 1)[2]])),
                          r[3].tree)

\* What a core opened over the stores of the appends in durable[c] is.
Restored(c) ==
    LET n == Len(durable[c])
    IN /\ core[c].open
       /\ core[c].length = n
       /\ core[c].length =
             IF core[c].merkle.roots = <<>> THEN 0
             ELSE 1 + right_span(
                        core[c].merkle.roots[Len(core[c].merkle.roots)].index)
                      \div 2
       /\ core[c].byte_length = SumLen(durable[c])
       /\ core[c].merkle = MerkleOf(durable[c])
       /\ \A i \in 0..(n - 1) :
             LET r == CoreGet(c, i)
             IN r[1] = "Some" /\ r[2] = durable[c][i + 1]

\* C9: Core::new over the stores left by n successful appends, n >= 0,
\* succeeds with len() = n (recomputed from the persisted roots),
\* byte_length the total content length, the Merkle roots of the n
\* contents, and get(i) the i-th appended content for every i < n.
C9_ReopenRestores ==
    \A c \in Cores :
       (ret.op = "new" /\ ret.c = c /\ ret.after \in {"-", "close"}
          /\ faults = 0) =>
          ret.res = "Ok" /\ Restored(c)

C9_Witness ==
    /\ ret = [Ret("new", "writer", "Ok") EXCEPT !.after = "close"]
    /\ faults = 0
    /\ Len(durable["writer"]) = MaxBlocks
    /\ durable["writer"][1] # durable["writer"][2]
    /\ Len(durable["writer"][2]) > 0

\* What the next append on a restored core does: it is stored at index
\* Len(durable[c]) and at the offset that ends the durable contents.
NextAppendLands(c) ==
    \A content \in Contents :
       LET prep == AppendPrepare(c, content, <<>>)
           w == AppendWrites(c, content, prep,
                             [data |-> TRUE, blocks |-> TRUE, state |-> TRUE])
           n == Len(durable[c])
       IN /\ prep.res = "Ok"
          /\ prep.block.offset = SumLen(durable[c])
          /\ StoreBlocksReadOk(w.blocks, n)
          /\ StoreBlocksRead(w.blocks, n) = prep.block
          /\ StoreDataReadOk(w.data, prep.block)
          /\ StoreDataRead(w.data, prep.block) = content
          /\ StoreStateRead(w.state) = MerkleOf(Append(durable[c], content))

CrashRecovered ==
    /\ ret.res = "Ok"
    /\ Restored(ret.c)
    /\ CoreGet(ret.c, Len(durable[ret.c])) = <<"None">>
    /\ NextAppendLands(ret.c)

\* C10: when an append is cut short by a crash before its state write
\* completes and the core is reopened, the reopened length is the number
\* of appends whose state write completed, get(i) returns the original
\* content below that length and absent at it, and the next append is
\* stored at that index and offset.
C10_CrashThenReopen ==
    (ret.op = "new" /\ ret.after = "crash") => CrashRecovered

\* Both signatures of `signature` verify for `content` appended to c now.
Verifies(c, content, signature) ==
    /\ verify(PublicKey, from_leaf(content), signature.data)
    /\ verify(PublicKey,
              hash_merkle(MerkleNext(core[c].merkle, from_leaf(content),
                                     Len(content))),
              signature.tree)

\* C2: an append with a supplied signature whose data signature or tree
\* signature does not verify returns the verification error and leaves
\* length, byte_length, the Merkle roots and the three stores as they
\* were, so whatever append would have succeeded before still does.
C2_VerifyFailureChangesNothing ==
    [][\/ ret'.res = "ErrVerify" /\ UNCHANGED <<core, data, blocks, state>>
       \/ ~ \E c \in Cores, content \in Contents :
              \E signature \in Signatures(c) \ {<<>>} :
                 /\ ret'.c = c
                 /\ ~Verifies(c, content, signature[1])
                 /\ \E wrote \in Wrote :
                       CoreAppend(c, content, signature, wrote)]_vars

C2_Witness ==
    /\ ret = Ret("append", "replica", "ErrVerify")
    /\ core["replica"].length > 0
    /\ \E content \in Contents, signature \in Signatures("replica") \ {<<>>} :
          /\ Verifies("replica", content, signature[1])
          /\ AppendPrepare("replica", content, signature).res = "Ok"

\* C3: on a core opened without a secret key, append(content, None) fails
\* and leaves length, byte_length, the Merkle roots and the three stores
\* as they were.
C3_NoSecretChangesNothing ==
    [][\A c \in Cores, content \in Contents, wrote \in Wrote :
          (~secret_key[c] /\ CoreAppend(c, content, <<>>, wrote))
          => (ret'.res = "ErrNoSecret"
                /\ UNCHANGED <<core, data, blocks, state>>)]_vars

C3_Witness ==
    /\ ret = Ret("append", "replica", "ErrNoSecret")
    /\ ~secret_key["replica"]
    /\ core["replica"].length > 0

\* The replica holds the writer's first blocks: every block it has is the
\* block the writer has at that index.
HoldsPrefix(r, w) ==
    /\ core[r].length <= core[w].length
    /\ \A k \in 0..(core[r].length - 1) : CoreGet(r, k) = CoreGet(w, k)

\* C7: a (content, signature) pair the writer produced for index i is
\* rejected by append on a replica that holds the writer's first j blocks,
\* j # i: a block is never stored at an index other than the one it was
\* signed for.
C7_RejectedAtOtherIndex ==
    \A i \in 0..(core["writer"].length - 1) :
       (HoldsPrefix("replica", "writer") /\ core["replica"].length # i) =>
          LET r == CoreGet("writer", i)
          IN AppendPrepare("replica", r[2], <<r[3]>>).res = "ErrVerify"

\* C8: a core that has appended the same contents in the same order as
\* the writer, through the signature-supplied path or by signing them
\* itself, has content, block-record and state stores identical to the
\* writer's, and its get(i) returns the writer's (content, signature).
C8_ReplicaIdentical ==
    model["replica"] = model["writer"] =>
       /\ data["replica"] = data["writer"]
       /\ blocks["replica"] = blocks["writer"]
       /\ state["replica"] = state["writer"]
       /\ \A i \in 0..(Len(model["writer"]) - 1) :
             CoreGet("replica", i) = CoreGet("writer", i)

\* C11: within one append the state store is written only once the content
\* and the block record of that append are both in their stores; when the
\* append fails with a write error the state store is untouched and
\* length and byte_length are not advanced.
C11_StateWrittenLast ==
    [][\A c \in Cores :
          /\ state'[c] # state[c] =>
                /\ StoreBlocksReadOk(blocks'[c], core[c].length)
                /\ LET block == StoreBlocksRead(blocks'[c], core[c].length)
                   IN /\ block.offset = core[c].byte_length
                      /\ StoreDataReadOk(data'[c], block)
                      /\ durable'[c] =
                            Append(durable[c], StoreDataRead(data'[c], block))
          /\ (ret'.op = "append" /\ ret'.c = c /\ ret'.res = "ErrIo") =>
                /\ state'[c] = state[c]
                /\ core'[c].length = core[c].length
                /\ core'[c].byte_length = core[c].byte_length]_vars

C11_Witness ==
    /\ ret = Ret("append", "writer", "ErrIo")
    /\ core["writer"].length > 0
    /\ Len(data["writer"]) > core["writer"].byte_length
    /\ ~StoreBlocksReadOk(blocks["writer"], core["writer"].length)
    /\ StoreStateRead(state["writer"]).blocks = core["writer"].length

\* C12: append on a core that already holds MAX_CORE_LENGTH blocks, or of
\* a content longer than MAX_BLOCK_SIZE, is rejected with an error and
\* leaves the counters as they were; the length counter never overflows
\* or wraps.
C12_RejectedAtCapacity ==
    cap.ret.op = "append" =>
       /\ (cap.prev.length = MAX_CORE_LENGTH
             \/ ~WLe(cap.ret.arg, MAX_BLOCK_SIZE)) =>
             (cap.ret.res = "ErrOversize" /\ cap.core = cap.prev)
       /\ cap.ret.res # "Panic"
       /\ cap.ret.res = "Ok" =>
             /\ cap.core.length = WAdd(cap.prev.length, Wide(1))
             /\ WLe(cap.core.length, MAX_CORE_LENGTH)

\* C13: get(index) is absent, not an error, for every u32 index at or
\* above length; head() is absent on an empty core and get(length - 1)
\* otherwise.
C13_AbsentBeyondLength ==
    /\ (cap.ret.op = "get" /\ ~WLt(cap.ret.arg, cap.core.length)) =>
          cap.ret.res = "None"
    /\ cap.ret.op = "head" =>
          IF cap.core.length = Wide(0) THEN cap.ret.res = "None"
          ELSE /\ WAdd(cap.ret.arg, Wide(1)) = cap.core.length
               /\ cap.ret.res = GetCounters(cap.core, cap.ret.arg)

\* Number of 1 bits of n.
RECURSIVE popcount(_)
popcount(n) == IF n = 0 THEN 0 ELSE (n % 2) + popcount(n \div 2)

\* The roots of m are the roots of a tree over exactly `leaves`.
RootsCover(m, leaves) ==
    LET n == Len(leaves)
        r == m.roots
    IN /\ m.blocks = n
       /\ Len(r) = popcount(n)
       /\ \A k \in 1..(Len(r) - 1) :
             /\ r[k].index < r[k + 1].index
             /\ left_span(r[k + 1].index) = right_span(r[k].index) + 2
       /\ n > 0 => /\ left_span(r[1].index) = 0
                   /\ right_span(r[Len(r)].index) = 2 * (n - 1)
       /\ \A k \in 1..Len(r) :
             /\ left_span(r[k].index) <= right_span(r[k].index)
             /\ r[k].length =
                   SumLen(SubSeq(leaves, left_span(r[k].index) \div 2 + 1,
                                 right_span(r[k].index) \div 2 + 1))

\* C14: after n calls of next from empty, n >= 0, there are popcount(n)
\* roots with strictly increasing indices whose leaf spans are disjoint,
\* contiguous and cover exactly leaves 0..n-1, each root's length is the
\* sum of the lengths of the leaves it covers, and blocks() = n.
C14_RootsPartitionLeaves ==
    RootsCover(mts.a, mts.la) /\ RootsCover(mts.b, mts.lb)

C14_Witness ==
    /\ Len(mts.la) >= 3
    /\ Len(mts.a.roots) = 2
    /\ mts.a.roots[1].length > mts.a.roots[2].length
    /\ mts.a.roots[2].length > 0

\* C15 as stated: for n >= 1, after n appends no root's flat-tree parent
\* index lies within [0, 2n - 1].
C15_ParentBeyondNodes ==
    \A k \in 1..Len(mts.a.roots) :
       parent(mts.a.roots[k].index) > 2 * Len(mts.la) - 1

\* C15 as amended: for n >= 1, after n appends no root's flat-tree parent
\* index lies within [0, n - 1].
C15_ParentBeyondLeaves ==
    \A k \in 1..Len(mts.a.roots) :
       parent(mts.a.roots[k].index) > Len(mts.la) - 1

C15_Witness ==
    /\ Len(mts.la) = 3
    /\ Len(mts.a.roots) = 2
    /\ parent(mts.a.roots[1].index) = 3

\* C16: two streams fed the same leaves have equal roots, and two
\* sequences that differ in one element give different roots.
C16_RootsFollowLeaves ==
    (mts.la = mts.lb) <=> (mts.a.roots = mts.b.roots)

C16_Witness ==
    /\ Len(mts.la) = MaxLeaves
    /\ Len(mts.a.roots) = 1
    /\ mts.la[1] = mts.lb[1]
    /\ mts.la[2] # mts.lb[2]
    /\ Len(mts.la[2]) = Len(mts.lb[2])
    /\ mts.a.roots # mts.b.roots

\* The replica holds the writer's whole log.
Synced ==
    /\ core["replica"].length = core["writer"].length
    /\ \A i \in 0..(core["writer"].length - 1) :
          /\ CoreGet("replica", i)[1] = "Some"
          /\ CoreGet("replica", i) = CoreGet("writer", i)

BothOpened == \A c \in Cores : run[c] # "new"

NothingInFlight == \A c \in Cores : net[c] = <<>>

C18_ReplicaIsPrefix ==
    /\ core["replica"].length <= core["writer"].length
    /\ \A i \in 0..(core["replica"].length - 1) :
          /\ CoreGet("replica", i)[1] = "Some"
          /\ CoreGet("replica", i) = CoreGet("writer", i)

C18_Witness ==
    /\ core["replica"].length = MaxBlocks
    /\ lost > 0
    /\ \E k \in 1..Len(net["replica"]) :
          /\ net["replica"][k].type = "Data"
          /\ net["replica"][k].index < core["replica"].length

\* C19: over a reliable transport the exchange of Request and Data
\* messages ends: once no reopen occurs any more, nothing stays in flight
\* and nothing more is sent.
C19_ExchangeTerminates == <>[]NothingInFlight

C19_Witness ==
    /\ Synced
    /\ NothingInFlight
    /\ core["replica"].length = MaxBlocks
    /\ \A c \in Cores : run[c] = "open"
    /\ lost > 0

\* C20: when messages are lost the replica still reaches the length the
\* peer advertised without a reopen: once both runtimes are idle with
\* nothing in flight, the replica has at least the length it was told of.
C20_IdleMeansCaughtUp ==
    (/\ NothingInFlight
     /\ \A c \in Cores : run[c] = "open"
     /\ remote_index["replica"] # <<>>) =>
       core["replica"].length >= remote_index["replica"][1]

\* A Request for `length` is in flight to the running replica.
Advertised(length) ==
    /\ run["replica"] = "open"
    /\ \E k \in 1..Len(net["replica"]) : net["replica"][k] = Request(length)

Observed(c, idx) ==
    \E k \in 1..Len(net[c]), keep \in BOOLEAN :
       /\ net[c][k] = Request(idx)
       /\ HandleEvent(c, k, keep, Written)

\* The highest of the remote indices observed so far and idx.
Highest(old, idx) ==
    IF old = <<>> THEN <<idx>>
    ELSE IF idx > old[1] THEN <<idx>> ELSE old

\* C22: on_close fails exactly when a Request has been received and the
\* core is shorter than the highest index any received Request carried;
\* it succeeds otherwise, and always when no Request was received.
\* remote_index is <<>> until the first Request and afterwards the highest
\* index observed, and the close at the keepalive timeout returns
\* accordingly.
C22_CloseReportsUnsynced ==
    [][\A c \in Cores :
          /\ \A idx \in 0..MaxBlocks :
                Observed(c, idx) =>
                   remote_index'[c] = Highest(remote_index[c], idx)
          /\ (\A idx \in 0..MaxBlocks : ~Observed(c, idx)) =>
                remote_index'[c] = remote_index[c]
          /\ Timeout(c) =>
                run'[c] = IF /\ remote_index[c] # <<>>
                             /\ core[c].length < remote_index[c][1]
                          THEN "Err" ELSE "Ok"]_vars

C22_Witness ==
    /\ faults = 0
    /\ run["replica"] = "Err"
    /\ remote_index["replica"] # <<>>
    /\ core["replica"].length < remote_index["replica"][1]
    /\ run["writer"] = "Ok"
    /\ remote_index["writer"] = <<>>

\* C23: a Quit command or an error event of the protocol calls on_close
\* on every attached replica, once each and whether or not an earlier one
\* failed, and ends the loop; run() returns Ok exactly when every on_close
\* succeeded.
C23_CloseAllThenStop ==
    /\ [](rt.by \in {"quit", "error"} =>
            /\ rt.run \in {"Ok", "Err"}
            /\ Len(rt.closed) = Cardinality(Attached(rt.replicas))
            /\ { rt.closed[i] : i \in 1..Len(rt.closed) } =
                  Attached(rt.replicas)
            /\ rt.run = "Ok" <=>
                  \A key \in Attached(rt.replicas) : ~rt.replicas[key].behind)
    /\ [][rt.run = "open"]_rt

C23_Witness ==
    /\ rt.by = "error"
    /\ rt.run = "Err"
    /\ Len(rt.closed) = MaxReplicas
    /\ rt.replicas[rt.closed[1]].behind
    /\ ~rt.replicas[rt.closed[MaxReplicas]].behind

\* C24: every local id attach_local hands out is at least 1, and when a
\* remove left an id free the next attach_local hands out a freed id.
C24_LocalIdsFromOne ==
    cm.call = "attach_local" =>
       /\ cm.id >= 1
       /\ cm.free # {} => cm.id \in cm.free

\* The events the side has queued so far, handed up or not.
Events(p) == p.events \o p.queued_events

HasLocal(p, dk) ==
    IF p.channels.channels[dk] = <<>> THEN FALSE
    ELSE p.channels.channels[dk][1].local_state # <<>>

HasRemote(p, dk) ==
    IF p.channels.channels[dk] = <<>> THEN FALSE
    ELSE p.channels.channels[dk][1].remote_state # <<>>

\* An open of the channel is among the calls made.
OpenedLocally(p, dk) ==
    \E i \in 1..Len(p.calls) :
       /\ p.calls[i].message.type = "Open"
       /\ p.calls[i].message.discovery_key = dk

\* C25: a remote Open for a channel that is not open locally queues
\* DiscoveryKey(dk) and nothing else, and no Open(dk) is queued before the
\* local open; a remote Open for a locally open channel and a local open
\* of a remotely open channel each queue exactly one Open(dk) when the
\* capability verifies; a local open of a channel the remote end has not
\* opened queues no event.
C25_OpenInEitherOrder ==
    pr.stage = "main" /\ pr.res = "Ok" =>
       \A key \in OpenKeys :
          LET dk == discovery_key(key)
              opened == open(pr, key)
          IN /\ (\E i \in 1..Len(Events(pr)) : Events(pr)[i] = EventOpen(dk))
                   => OpenedLocally(pr, dk)
             /\ opened.res = "Ok" =>
                   opened.queued_events =
                      IF HasRemote(pr, dk)
                      THEN Append(pr.queued_events, EventOpen(dk))
                      ELSE pr.queued_events
             /\ \A frame \in RemoteFrames :
                   LET handled == on_inbound_message(pr, frame)
                   IN frame.message.type = "Open"
                      /\ frame.message.discovery_key = dk
                      /\ handled.res = "Ok" =>
                         handled.queued_events =
                            IF HasLocal(pr, dk)
                            THEN Append(pr.queued_events, EventOpen(dk))
                            ELSE Append(pr.queued_events,
                                        EventDiscoveryKey(dk))

\* The remote end opened first, then the side: DiscoveryKey, then Open.
C25_Witness ==
    /\ pr.stage = "main" /\ pr.res = "Ok"
    /\ pr.events = <<EventDiscoveryKey(discovery_key(1)),
                     EventOpen(discovery_key(1))>>
    /\ HasLocal(pr, discovery_key(1)) /\ HasRemote(pr, discovery_key(1))

\* The Open frames the side queued, parked, buffered or wrote.
OpenFrames(p) ==
    { p.calls[i] : i \in { j \in 1..Len(p.calls) :
                              p.calls[j].message.type = "Open" } }

\* C26: with noise disabled no Open frame of the side carries a
\* capability, no call or poll ends in a verification error, and a
\* channel that both sides opened has queued Open(dk).
C26_NoVerificationWithoutNoise ==
    pr.stage = "main" /\ pr.handshake = <<>> =>
       /\ \A frame \in OpenFrames(pr) : frame.message.capability = <<>>
       /\ pr.res = "Ok"
       /\ \A key \in OpenKeys :
             HasLocal(pr, discovery_key(key))
             /\ HasRemote(pr, discovery_key(key)) =>
                \E i \in 1..Len(Events(pr)) :
                   Events(pr)[i] = EventOpen(discovery_key(key))

\* Everything handed to the writer has been written to the transport.
Flushed(p) ==
    /\ p.outbound = <<>> /\ p.queue = <<>>
    /\ p.current_frame = <<>> /\ p.buf = <<>>

\* C27: when the last call was close(dk) on a channel with a local
\* handle, then once the writer has flushed, the Close frame of that call
\* is on the wire, the channel map has no local handle for dk and the
\* local id is free.
C27_LocalCloseSendsAndRemoves ==
    pr.stage = "main" /\ pr.res = "Ok" /\ pr.calls # <<>> /\ Flushed(pr) =>
       LET frame == pr.calls[Len(pr.calls)]
       IN frame.message.type = "Close" =>
             /\ \E i \in 1..Len(pr.wire) : pr.wire[i] = frame
             /\ ~HasLocal(pr, frame.message.discovery_key)
             /\ get_local(pr.channels, frame.channel) = <<>>

\* C28: an inbound Close on remote id r whose discovery_key is that of the
\* channel r is attached to removes that channel and queues Close(dk) and
\* nothing else; an inbound Close on an id that is not attached, or with
\* another discovery_key, changes nothing and queues no event.
C28_RemoteCloseOnlyIfKeyMatches ==
    pr.stage = "main" /\ pr.res = "Ok" =>
       \A r \in RemoteIds, dk \in DiscoveryKeys :
          LET handled == on_inbound_message(
                             pr, ChannelMessage(r, MessageClose(dk)))
              attached == /\ r < Len(pr.channels.remote_id)
                          /\ dk = At(pr.channels.remote_id, r)
                          /\ pr.channels.channels[dk] # <<>>
          IN IF attached
             THEN /\ handled.channels.channels =
                        [pr.channels.channels EXCEPT ![dk] = <<>>]
                  /\ handled.queued_events =
                        Append(pr.queued_events, EventClose(dk))
             ELSE handled = pr

\* The remote end closed a channel it had opened, and was heard.
C28_Witness ==
    /\ pr.stage = "main" /\ pr.res = "Ok"
    /\ pr.events = <<EventDiscoveryKey(discovery_key(1)),
                     EventClose(discovery_key(1))>>
    /\ pr.calls = <<>>
    /\ pr.arrived = MaxFrames /\ pr.inbound = <<>>
    /\ pr.channels.channels[discovery_key(1)] = <<>>

\* The frames of a sequence that are on local channel id ch, in order.
RECURSIVE OnChannel(_, _)
OnChannel(frames, ch) ==
    IF frames = <<>> THEN <<>>
    ELSE IF Head(frames).channel = ch
    THEN <<Head(frames)>> \o OnChannel(Tail(frames), ch)
    ELSE OnChannel(Tail(frames), ch)

\* a can be had from b by leaving frames out, the order kept.
RECURSIVE InOrderOf(_, _)
InOrderOf(a, b) ==
    IF a = <<>> THEN TRUE
    ELSE IF b = <<>> THEN FALSE
    ELSE IF Head(a) = Head(b) THEN InOrderOf(Tail(a), Tail(b))
    ELSE InOrderOf(a, Tail(b))

\* C29: whatever writes the transport left pending, the frames of each
\* channel are on the wire in the order of the calls they stand for, and
\* every Request frame on the wire comes after an Open frame of its
\* channel, so that the receiver knows the channel when it arrives.
C29_ChannelFifoOnTheWire ==
    pr.stage = "main" =>
       /\ \A ch \in 0..MaxCalls :
             InOrderOf(OnChannel(pr.wire, ch), OnChannel(pr.calls, ch))
       /\ \A i \in 1..Len(pr.wire) :
             pr.wire[i].message.type = "Request" =>
                \E j \in 1..(i - 1) :
                   /\ pr.wire[j].channel = pr.wire[i].channel
                   /\ pr.wire[j].message.type = "Open"

Answer(c, req, remote) ==
    LET r == CoreGet(c, req.index)
    IN IF r[1] = "Some" THEN <<Data(req.index, r[2], r[3])>>
       ELSE IF LtU32Max(core[c].length) /\ remote[1] > core[c].length
       THEN <<Request(core[c].length)>>
       ELSE <<>>

C33_OnDataAppendsNext ==
    [][\A c \in Cores :
       \A k \in 1..Len(net[c]), keep \in BOOLEAN :
          (/\ net[c][k].type = "Data"
           /\ net'[c] = (IF keep THEN net[c] ELSE Without(net[c], k))
           /\ HandleEvent(c, k, keep, Written))
          => IF net[c][k].index = core[c].length
             THEN ret'.res = "Ok"
                  => /\ core'[c].length = core[c].length + 1
                     /\ run'[c] = "open"
                     /\ net'[Peer(c)] =
                           Send(Peer(c),
                                IF LtU32Max(core'[c].length)
                                THEN <<Request(net[c][k].index + 1)>>
                                ELSE <<>>)
             ELSE /\ <<core, data, blocks, state>>' =
                        <<core, data, blocks, state>>
                  /\ run'[c] = "open"
                  /\ net'[Peer(c)] =
                        Send(Peer(c), <<Request(core[c].length)>>)]_vars

\* The replica holds one block, a second copy of that block is in flight
\* to it, and it has asked for the next block twice: once after the
\* append and once after a copy it had already.
C33_Witness ==
    /\ core["replica"].length = 1
    /\ \E k \in 1..Len(net["replica"]) :
          net["replica"][k].type = "Data" /\ net["replica"][k].index = 0
    /\ \E j, k \in 1..Len(net["writer"]) :
          j < k /\ net["writer"][j] = Request(1) /\ net["writer"][k] = Request(1)

\* C39: a Data message for the next block whose data_signature or
\* tree_signature bytes are not a well-formed 64-byte signature makes
\* on_data return an error and leaves the core unchanged; the replication
\* task is not aborted by a panic.
C39_MalformedSignatureIsAnError ==
    [][\A c \in Cores : \A k \in 1..Len(net[c]) :
          (/\ net[c][k].type = "Data"
           /\ net[c][k].index = core[c].length
           /\ Malformed \in {net[c][k].signature.data,
                             net[c][k].signature.tree}
           /\ HandleEvent(c, k, FALSE, Written))
          => /\ run'[c] = "Err"
             /\ <<core, data, blocks, state>>' =
                   <<core, data, blocks, state>>]_vars

\* C40: whenever Replication::run has returned, with Ok or with an error,
\* also when a replica callback or a protocol send failed on one channel,
\* on_close has been invoked on every replica that was still attached.
C40_ReturnClosesEveryReplica ==
    rt.run \in {"Ok", "Err"}
    => Attached(rt.replicas) \subseteq
          { rt.closed[i] : i \in 1..Len(rt.closed) }

\* C36: after any sequence of attach_local, attach_remote and remove,
\* attach_local twice for the same key included, the local-id table and
\* the channel handles agree: slot i names channel c exactly when the
\* local id of c is i, so no two open channels share a local id and no
\* stale slot names a channel that has another id.
C36_LocalIdTableAgrees ==
    \A i \in 0..(Len(cm.map.local_id) - 1), dk \in DiscoveryKeys :
       At(cm.map.local_id, i) = dk
       <=> /\ cm.map.channels[dk] # <<>>
           /\ cm.map.channels[dk][1].local_state # <<>>
           /\ cm.map.channels[dk][1].local_state[1].local_id = i

\* The number of items among the first n polls that were Some.
RECURSIVE Yielded(_, _)
Yielded(out, n) ==
    IF n = 0 THEN 0
    ELSE Yielded(out, n - 1) + (IF out[n] = <<>> THEN 0 ELSE 1)

\* C35: an iterator created at index s yields (s, content_s),
\* (s + 1, content_s+1), ... without gaps or repeats, and None exactly
\* when its next index is at or beyond the length of the core, also when
\* appends interleave with the polls: a block appended after a None is
\* yielded by a later poll.
C35_IteratorYieldsEveryBlock ==
    \A k \in 1..Len(it.out) :
       LET next == it.start + Yielded(it.out, k - 1)
       IN IF next >= it.seen[k] THEN it.out[k] = <<>>
          ELSE it.out[k] = <<<<next, CoreGet("writer", next)[2]>>>>

\* The Close(dk) events an end has queued so far, handed up or not.
CloseEvents(p, dk) ==
    Cardinality({ i \in 1..Len(Events(p)) : Events(p)[i] = EventClose(dk) })

\* A Close frame for dk was written by one of the ends.
CloseWritten(dk) ==
    \E side \in Sides : \E i \in 1..Len(peers[side].wire) :
       peers[side].wire[i].message = MessageClose(dk)

\* Every frame written was read and handled, and nothing waits to be
\* written or handed up.
Settled ==
    \A side \in Sides :
       /\ peers[side].arrived = Len(peers[Other(side)].wire)
       /\ peers[side].inbound = <<>>
       /\ peers[side].queued_events = <<>>
       /\ Flushed(peers[side])

\* C34: for an established channel, whichever end closes first and also
\* when both close at once, each end emits exactly one Close(dk) event and
\* afterwards holds no handle for dk, and a further close(dk) on the
\* absent channel returns Ok and sends nothing.
C34_EachSideClosesOnce ==
    \A key \in PeerKeys :
       LET dk == discovery_key(key)
       IN /\ \A side \in Sides :
                LET p == peers[side]
                IN /\ CloseEvents(p, dk) <= 1
                   /\ CloseEvents(p, dk) = 1 => p.channels.channels[dk] = <<>>
                   /\ p.channels.channels[dk] = <<>> =>
                         close(p, dk) = [p EXCEPT !.res = "Ok"]
                   /\ HasLocal(p, dk) /\ HasRemote(p, dk) =>
                         close(p, dk).outbound =
                            Append(p.outbound,
                                   FrameOf(p, dk, MessageClose(dk))[1])
          /\ Settled /\ CloseWritten(dk) =>
                \A side \in Sides :
                   /\ CloseEvents(peers[side], dk) = 1
                   /\ peers[side].events[Len(peers[side].events)] =
                         EventClose(dk)
                   /\ peers[side].res = "Ok"

\* Both ends closed the established channel before either heard of the
\* other's close: both Close frames crossed, and all is settled.
C34_Witness ==
    /\ Settled
    /\ \A side \in Sides :
          /\ Len(peers[side].wire) = 2
          /\ peers[side].wire[2].message = MessageClose(discovery_key(1))
          /\ peers[side].events =
                <<EventOpen(discovery_key(1)), EventClose(discovery_key(1))>>

\* C38: whenever the reader polls the transport for more bytes the slice
\* buf[end..] it offers is not empty, whatever the sizes of the frames, so
\* it never waits for bytes with start = end = buf.len().
C38_ReadSliceNeverEmpty ==
    /\ ~fr.polled_empty
    /\ (fr.res = "Ok" /\ fr.ret = <<>> /\ fr.start = fr.end)
          => fr.end < Len(fr.buf)

\* C37: from a stream of encoded frames, however it is split into reads,
\* the reader returns the frames that were written, in their order, and
\* does not panic; once every byte has arrived and was polled for, it has
\* returned all of them.
C37_FramesWhateverTheSplit ==
    (~fr.noise) =>
       /\ fr.res = "Ok"
       /\ Len(fr.out) <= Len(fr.sent)
       /\ fr.out = SubSeq(fr.sent, 1, Len(fr.out))

\* C31: with the last handshake frame and bytes of the first frame after it
\* in one read, nothing after the handshake is parsed before the cipher is
\* installed: no step parsed earlier is carried over, and the frames
\* returned are the channel messages the remote end sent.
C31_NothingParsedBeforeCipher ==
    fr.noise =>
       /\ fr.at_upgrade = <<>>
       /\ fr.res = "Ok"
       /\ Len(fr.out) <= Len(fr.sent)
       /\ fr.out = SubSeq(fr.sent, 1, Len(fr.out))
====
